---- MODULE Spec2Model ----
(***************************************************************************)
(* Sales analytics pipeline: read -> parse -> validate/filter -> analyse   *)
(* -> fetch catalogue -> enrich -> report (src/main.py), with the parser   *)
(* and validator of src/utils/data_processor.py and the enricher of        *)
(* src/utils/api_handler.py.                                               *)
(*                                                                         *)
(* Python strings are sequences of one-character strings, so that split,   *)
(* strip, replace, lower, startswith, int() and float() are computed.      *)
(***************************************************************************)
EXTENDS Integers, Sequences, FiniteSets, TLC

(***************************************************************************)
(* Bounds of the model.                                                    *)
(***************************************************************************)
\* longest list of file lines read by the pipeline
MaxLines == 2
\* longest list of records handed directly to validate_and_filter
MaxRecords == 2
\* longest list of transactions handed directly to enrich_sales_data
MaxTx == 2
\* longest digit string of a product id handed to the key derivation
MaxDigits == 3

(***************************************************************************)
(* Python values.  Every value is a record of the same shape:              *)
(*   t = "none" | "str" | "int" | "float" | "nan" | "bool"                 *)
(*   s = the characters of a str                                           *)
(*   m, e = an int m (e = 0), or the float m / 10^e (normalised: e = 0 or  *)
(*          m not divisible by 10); a bool is m = 1 or 0.                  *)
(* "nan" is the float NaN: every ordering comparison with it is False.     *)
(***************************************************************************)
PyNone == [t |-> "none", s |-> <<>>, m |-> 0, e |-> 0]
PyStr(s) == [t |-> "str", s |-> s, m |-> 0, e |-> 0]
PyInt(n) == [t |-> "int", s |-> <<>>, m |-> n, e |-> 0]
PyNaN == [t |-> "nan", s |-> <<>>, m |-> 0, e |-> 0]
PyBool(b) == [t |-> "bool", s |-> <<>>, m |-> IF b THEN 1 ELSE 0, e |-> 0]

RECURSIVE Pow10(_)
Pow10(e) == IF e = 0 THEN 1 ELSE 10 * Pow10(e - 1)

RECURSIVE Normalise(_, _)
Normalise(m, e) ==
    IF e > 0 /\ m % 10 = 0 THEN Normalise(m \div 10, e - 1)
    ELSE [t |-> "float", s |-> <<>>, m |-> m, e |-> e]

PyFloat(m, e) == Normalise(m, e)

IsNumber(x) == x.t \in {"int", "float", "bool"}

\* x < y, x <= y, x > y of Python numbers; False when either is NaN
NumLt(x, y) == IsNumber(x) /\ IsNumber(y) /\ x.m * Pow10(y.e) < y.m * Pow10(x.e)
NumLe(x, y) == IsNumber(x) /\ IsNumber(y) /\ x.m * Pow10(y.e) <= y.m * Pow10(x.e)
NumGt(x, y) == NumLt(y, x)
NumGe(x, y) == NumLe(y, x)

\* int * float
NumMul(q, p) ==
    IF q.t = "nan" \/ p.t = "nan" THEN PyNaN
    ELSE IF q.t = "int" /\ p.t = "int" THEN PyInt(q.m * p.m)
    ELSE PyFloat(q.m * p.m, q.e + p.e)

(***************************************************************************)
(* Python str methods.                                                     *)
(***************************************************************************)
DigitChars == <<"0", "1", "2", "3", "4", "5", "6", "7", "8", "9">>
UpperChars == <<"A", "B", "C", "D", "E", "F", "G", "H", "I", "J", "K", "L", "M",
                "N", "O", "P", "Q", "R", "S", "T", "U", "V", "W", "X", "Y", "Z">>
LowerChars == <<"a", "b", "c", "d", "e", "f", "g", "h", "i", "j", "k", "l", "m",
                "n", "o", "p", "q", "r", "s", "t", "u", "v", "w", "x", "y", "z">>

IsDigit(c) == \E i \in 1..10 : DigitChars[i] = c
DigitVal(c) == (CHOOSE i \in 1..10 : DigitChars[i] = c) - 1

LowerChar(c) ==
    IF \E i \in 1..26 : UpperChars[i] = c
    THEN LowerChars[CHOOSE i \in 1..26 : UpperChars[i] = c]
    ELSE c
UpperChar(c) ==
    IF \E i \in 1..26 : LowerChars[i] = c
    THEN UpperChars[CHOOSE i \in 1..26 : LowerChars[i] = c]
    ELSE c

Lower(s) == [i \in 1..Len(s) |-> LowerChar(s[i])]

SetMin(S) == CHOOSE x \in S : \A y \in S : x <= y
SetMax(S) == CHOOSE x \in S : \A y \in S : x >= y

\* s.strip()
Strip(s) ==
    LET solid == {i \in 1..Len(s) : s[i] # " "}
    IN  IF solid = {} THEN <<>> ELSE SubSeq(s, SetMin(solid), SetMax(solid))

\* s.replace(",", "")
RemoveCommas(s) == SelectSeq(s, LAMBDA c : c # ",")

\* s.startswith(c) for a one-character c
StartsWith(s, c) == Len(s) >= 1 /\ s[1] = c

\* s.split("|")
RECURSIVE Split(_)
Split(s) ==
    LET bars == {i \in 1..Len(s) : s[i] = "|"}
    IN  IF bars = {} THEN <<s>>
        ELSE LET k == SetMin(bars)
             IN  <<SubSeq(s, 1, k - 1)>> \o Split(SubSeq(s, k + 1, Len(s)))

RECURSIVE DigitsVal(_)
DigitsVal(ds) ==
    IF ds = <<>> THEN 0
    ELSE 10 * DigitsVal(SubSeq(ds, 1, Len(ds) - 1)) + DigitVal(ds[Len(ds)])

Unsigned(u) == IF u # <<>> /\ u[1] \in {"+", "-"} THEN Tail(u) ELSE u
SignOf(u) == IF u # <<>> /\ u[1] = "-" THEN -1 ELSE 1

\* int(s) for a str s: surrounding blanks, one optional sign, decimal digits.
\* ok = FALSE is ValueError.
StrToInt(s) ==
    LET u == Strip(s)
        body == Unsigned(u)
    IN  IF body # <<>> /\ \A i \in 1..Len(body) : IsDigit(body[i])
        THEN [ok |-> TRUE, val |-> PyInt(SignOf(u) * DigitsVal(body))]
        ELSE [ok |-> FALSE, val |-> PyNone]

\* float(s) for a str s: surrounding blanks, one optional sign, then "nan" in
\* any case or digits with at most one point and at least one digit.
StrToFloat(s) ==
    LET u == Strip(s)
        body == Unsigned(u)
        dots == {i \in 1..Len(body) : body[i] = "."}
        digits == SelectSeq(body, IsDigit)
    IN  IF Lower(body) = <<"n", "a", "n">>
        THEN [ok |-> TRUE, val |-> PyNaN]
        ELSE IF /\ digits # <<>>
                /\ Cardinality(dots) <= 1
                /\ \A i \in 1..Len(body) : IsDigit(body[i]) \/ body[i] = "."
        THEN [ok |-> TRUE,
              val |-> PyFloat(SignOf(u) * DigitsVal(digits),
                              IF dots = {} THEN 0 ELSE Len(body) - SetMin(dots))]
        ELSE [ok |-> FALSE, val |-> PyNone]

(***************************************************************************)
(* Python conversions of a value: int(x), float(x), str(x).                *)
(* ok = FALSE is ValueError or TypeError.                                  *)
(***************************************************************************)
\* int(x): a str is parsed, a float is truncated towards zero, NaN and None
\* cannot be converted
PyToInt(x) ==
    CASE x.t = "int" -> [ok |-> TRUE, val |-> x]
      [] x.t = "bool" -> [ok |-> TRUE, val |-> PyInt(x.m)]
      [] x.t = "float" ->
            [ok |-> TRUE,
             val |-> PyInt(IF x.m >= 0 THEN x.m \div Pow10(x.e)
                           ELSE -((-x.m) \div Pow10(x.e)))]
      [] x.t = "str" -> StrToInt(x.s)
      [] OTHER -> [ok |-> FALSE, val |-> PyNone]

\* float(x)
PyToFloat(x) ==
    CASE x.t \in {"int", "bool"} -> [ok |-> TRUE, val |-> PyFloat(x.m, 0)]
      [] x.t \in {"float", "nan"} -> [ok |-> TRUE, val |-> x]
      [] x.t = "str" -> StrToFloat(x.s)
      [] OTHER -> [ok |-> FALSE, val |-> PyNone]

RECURSIVE NatToStr(_)
NatToStr(n) ==
    IF n < 10 THEN <<DigitChars[n + 1]>>
    ELSE NatToStr(n \div 10) \o <<DigitChars[(n % 10) + 1]>>

\* str(x) of a float m / 10^e, e.g. 2.5 and 45000.0
FloatToStr(x) ==
    LET a == IF x.m < 0 THEN -x.m ELSE x.m
        whole == NatToStr(a \div Pow10(x.e))
        frac == NatToStr(Pow10(x.e) + (a % Pow10(x.e)))
    IN  (IF x.m < 0 THEN <<"-">> ELSE <<>>) \o whole \o <<".">>
        \o (IF x.e = 0 THEN <<"0">> ELSE Tail(frac))

\* str(x)
PyToStr(x) ==
    CASE x.t = "str" -> x.s
      [] x.t = "none" -> <<"N", "o", "n", "e">>
      [] x.t = "bool" -> IF x.m = 1 THEN <<"T", "r", "u", "e">>
                         ELSE <<"F", "a", "l", "s", "e">>
      [] x.t = "int" -> IF x.m < 0 THEN <<"-">> \o NatToStr(-x.m) ELSE NatToStr(x.m)
      [] x.t = "float" -> FloatToStr(x)
      [] OTHER -> <<"n", "a", "n">>

(***************************************************************************)
(* parse_transactions (src/utils/data_processor.py)                        *)
(***************************************************************************)
expected_fields == 8

\* one iteration of the loop over raw_lines: keep = FALSE is `continue`
ParseLineLoose(line) ==
    LET row == Strip(line)
        parts == Split(row)
        qty == IF Len(parts) >= 6 THEN StrToInt(RemoveCommas(Strip(parts[5])))
               ELSE [ok |-> FALSE, val |-> PyNone]
        price == IF Len(parts) >= 6 THEN StrToFloat(RemoveCommas(Strip(parts[6])))
                 ELSE [ok |-> FALSE, val |-> PyNone]
    IN  IF line = <<>> \/ row = <<>> \/ Len(parts) < expected_fields
           \/ ~qty.ok \/ ~price.ok
        THEN [keep |-> FALSE, rec |-> <<>>]
        ELSE [keep |-> TRUE,
              rec |-> [TransactionID |-> PyStr(Strip(parts[1])),
                       Date |-> PyStr(Strip(parts[2])),
                       ProductID |-> PyStr(Strip(parts[3])),
                       ProductName |-> PyStr(RemoveCommas(Strip(parts[4]))),
                       Quantity |-> qty.val,
                       UnitPrice |-> price.val,
                       CustomerID |-> PyStr(Strip(parts[7])),
                       Region |-> PyStr(Strip(parts[8]))]]

ParseLine(line) ==
    LET row == Strip(line)
        parts == Split(row)
        qty == IF Len(parts) = expected_fields
               THEN StrToInt(RemoveCommas(Strip(parts[5])))
               ELSE [ok |-> FALSE, val |-> PyNone]
        price == IF Len(parts) = expected_fields
                 THEN StrToFloat(RemoveCommas(Strip(parts[6])))
                 ELSE [ok |-> FALSE, val |-> PyNone]
    IN  IF line = <<>> \/ row = <<>> \/ Len(parts) # expected_fields
           \/ ~qty.ok \/ ~price.ok
        THEN [keep |-> FALSE, rec |-> <<>>]
        ELSE [keep |-> TRUE,
              rec |-> [TransactionID |-> PyStr(Strip(parts[1])),
                       Date |-> PyStr(Strip(parts[2])),
                       ProductID |-> PyStr(Strip(parts[3])),
                       ProductName |-> PyStr(RemoveCommas(Strip(parts[4]))),
                       Quantity |-> qty.val,
                       UnitPrice |-> price.val,
                       CustomerID |-> PyStr(Strip(parts[7])),
                       Region |-> PyStr(Strip(parts[8]))]]

RECURSIVE ParseLoop(_, _, _)
ParseLoop(raw_lines, i, cleaned) ==
    IF i > Len(raw_lines) THEN cleaned
    ELSE LET r == ParseLine(raw_lines[i])
         IN  ParseLoop(raw_lines, i + 1,
                       IF r.keep THEN Append(cleaned, r.rec) ELSE cleaned)

parse_transactions(raw_lines) == ParseLoop(raw_lines, 1, <<>>)

(***************************************************************************)
(* validate_and_filter (src/utils/data_processor.py)                       *)
(***************************************************************************)
required_fields ==
    <<"TransactionID", "Date", "ProductID", "ProductName",
      "Quantity", "UnitPrice", "CustomerID", "Region">>

\* the loop over required_fields: a field absent, or a str blank after strip
MissingField(tx) ==
    \E k \in 1..Len(required_fields) :
        LET f == required_fields[k]
        IN  \/ f \notin DOMAIN tx
            \/ (tx[f].t = "str" /\ Strip(tx[f].s) = <<>>)

Rejected == [keep |-> FALSE, counted |-> TRUE, rec |-> <<>>]

\* the body of the validation loop for one record: keep = FALSE is `continue`,
\* counted = TRUE is `invalid_count += 1`
ValidateRecordUncountedCustomer(tx) ==
    IF MissingField(tx) THEN Rejected
    ELSE LET qty == PyToInt(tx["Quantity"])
             price == PyToFloat(tx["UnitPrice"])
         IN  IF ~qty.ok \/ ~price.ok THEN Rejected
             ELSE IF NumLe(qty.val, PyInt(0)) \/ NumLe(price.val, PyInt(0))
             THEN Rejected
             ELSE IF ~StartsWith(Strip(PyToStr(tx["TransactionID"])), "T")
             THEN Rejected
             ELSE IF ~StartsWith(Strip(PyToStr(tx["ProductID"])), "P")
             THEN Rejected
             ELSE IF ~StartsWith(Strip(PyToStr(tx["CustomerID"])), "C")
             THEN [keep |-> FALSE, counted |-> FALSE, rec |-> <<>>]
             ELSE [keep |-> TRUE, counted |-> FALSE,
                   rec |-> [tx EXCEPT !["Quantity"] = qty.val,
                                      !["UnitPrice"] = price.val]]

ValidateRecord(tx) ==
    IF MissingField(tx) THEN Rejected
    ELSE LET qty == PyToInt(tx["Quantity"])
             price == PyToFloat(tx["UnitPrice"])
         IN  IF ~qty.ok \/ ~price.ok THEN Rejected
             ELSE IF NumLe(qty.val, PyInt(0)) \/ NumLe(price.val, PyInt(0))
             THEN Rejected
             ELSE IF ~StartsWith(Strip(PyToStr(tx["TransactionID"])), "T")
             THEN Rejected
             ELSE IF ~StartsWith(Strip(PyToStr(tx["ProductID"])), "P")
             THEN Rejected
             ELSE IF ~StartsWith(Strip(PyToStr(tx["CustomerID"])), "C")
             THEN Rejected
             ELSE [keep |-> TRUE, counted |-> FALSE,
                   rec |-> [tx EXCEPT !["Quantity"] = qty.val,
                                      !["UnitPrice"] = price.val]]

\* the validation loop: `for tx in transactions`
RECURSIVE ValidateLoop(_, _, _, _)
ValidateLoop(transactions, i, invalid_count, valid) ==
    IF i > Len(transactions)
    THEN [invalid_count |-> invalid_count, valid |-> valid]
    ELSE LET r == ValidateRecord(transactions[i])
         IN  ValidateLoop(transactions, i + 1,
                          IF r.counted THEN invalid_count + 1 ELSE invalid_count,
                          IF r.keep THEN Append(valid, r.rec) ELSE valid)

\* `dict(tx)`: a new dict with the items of tx, not shared with tx
DictCopy(tx) == [shared |-> FALSE, tx |-> tx]

\* the dict the loop variable tx refers to after the item assignments that
\* made the bound name (tx_clean, tx_new) into `written`: they reach tx
\* only when the two names share one dict
AfterWrites(binding, written) == IF binding.shared THEN written ELSE binding.tx

\* the argument list `transactions` after validate_and_filter returned: a
\* rejected record is only read, a kept one is copied before the two item
\* assignments; the filters build new lists
validate_and_filter_input(transactions) ==
    [i \in 1..Len(transactions) |->
        LET r == ValidateRecord(transactions[i])
        IN  IF r.keep THEN AfterWrites(DictCopy(transactions[i]), r.rec)
            ELSE transactions[i]]

\* `region is not None and str(region).strip() != ""`
RegionGiven(region) == region.t # "none" /\ Strip(PyToStr(region)) # <<>>

\* `str(t["Region"]).strip().lower() == target`
RegionMatches(t, region) ==
    Lower(Strip(PyToStr(t["Region"]))) = Lower(Strip(PyToStr(region)))

RECURSIVE Reverse(_)
Reverse(s) == IF s = <<>> THEN <<>> ELSE Append(Reverse(Tail(s)), Head(s))

RegionFilterPrepending(valid, region) ==
    IF RegionGiven(region)
    THEN Reverse(SelectSeq(valid, LAMBDA t : RegionMatches(t, region)))
    ELSE valid

\* after_region
RegionFilter(valid, region) ==
    IF RegionGiven(region)
    THEN SelectSeq(valid, LAMBDA t : RegionMatches(t, region))
    ELSE valid

\* in_range(t), closed over min_amount and max_amount
in_range(t, min_amount, max_amount) ==
    LET amt == NumMul(t["Quantity"], t["UnitPrice"])
    IN  IF min_amount.t # "none" /\ NumLt(amt, PyToFloat(min_amount).val) THEN FALSE
        ELSE IF max_amount.t # "none" /\ NumGt(amt, PyToFloat(max_amount).val) THEN FALSE
        ELSE TRUE

\* `min_amount is not None or max_amount is not None`
AmountGiven(min_amount, max_amount) == min_amount.t # "none" \/ max_amount.t # "none"

\* after_amount
AmountFilter(after_region, min_amount, max_amount) ==
    IF AmountGiven(min_amount, max_amount)
    THEN SelectSeq(after_region, LAMBDA t : in_range(t, min_amount, max_amount))
    ELSE after_region

validate_and_filter_cumulative(transactions, region, min_amount, max_amount) ==
    LET a == ValidateLoop(transactions, 1, 0, <<>>)
        after_region == RegionFilter(a.valid, region)
        after_amount == AmountFilter(after_region, min_amount, max_amount)
    IN  [valid |-> after_amount,
         invalid_count |-> a.invalid_count,
         summary |->
            [total_input |-> Len(transactions),
             invalid |-> a.invalid_count,
             filtered_by_region |->
                IF RegionGiven(region) THEN Len(a.valid) - Len(after_region) ELSE 0,
             filtered_by_amount |->
                IF AmountGiven(min_amount, max_amount)
                THEN Len(a.valid) - Len(after_amount) ELSE 0,
             final_count |-> Len(after_amount)]]

\* returns (after_amount, invalid_count, summary)
validate_and_filter(transactions, region, min_amount, max_amount) ==
    LET a == ValidateLoop(transactions, 1, 0, <<>>)
        after_region == RegionFilter(a.valid, region)
        after_amount == AmountFilter(after_region, min_amount, max_amount)
    IN  [valid |-> after_amount,
         invalid_count |-> a.invalid_count,
         summary |->
            [total_input |-> Len(transactions),
             invalid |-> a.invalid_count,
             filtered_by_region |->
                IF RegionGiven(region) THEN Len(a.valid) - Len(after_region) ELSE 0,
             filtered_by_amount |->
                IF AmountGiven(min_amount, max_amount)
                THEN Len(after_region) - Len(after_amount) ELSE 0,
             final_count |-> Len(after_amount)]]

(***************************************************************************)
(* create_product_mapping, _extract_numeric_product_id, enrich_sales_data  *)
(* and save_enriched_data (src/utils/api_handler.py)                       *)
(***************************************************************************)
\* the products the catalogue caps at, and the fold of larger ids onto them
CatalogSize == 100

\* a dict as a function: d[k] = v added or overwritten
DictSet(d, k, v) == (k :> v) @@ d

\* d.get(k)
DictGet(d, k) == IF k \in DOMAIN d THEN d[k] ELSE PyNone

RECURSIVE MappingLoop(_, _, _)
MappingLoop(api_products, i, product_map) ==
    IF i > Len(api_products) THEN product_map
    ELSE LET product == api_products[i]
             pid == DictGet(product, "id")
             pid_int == PyToInt(pid)
         IN  IF pid.t = "none" \/ ~pid_int.ok
             THEN MappingLoop(api_products, i + 1, product_map)
             ELSE MappingLoop(api_products, i + 1,
                      DictSet(product_map, pid_int.val.m,
                              [title |-> DictGet(product, "title"),
                               category |-> DictGet(product, "category"),
                               brand |-> DictGet(product, "brand"),
                               rating |-> DictGet(product, "rating")]))

create_product_mapping(api_products) == MappingLoop(api_products, 1, <<>>)

extract_numeric_product_id_unfolded(product_id) ==
    IF product_id.t = "none" THEN PyNone
    ELSE LET s0 == Strip(PyToStr(product_id))
             s1 == IF s0 # <<>> /\ UpperChar(s0[1]) = "P" THEN Strip(Tail(s0)) ELSE s0
             numeric_id == StrToInt(s1)
         IN  IF s0 = <<>> THEN PyNone
             ELSE IF ~numeric_id.ok THEN PyNone
             ELSE IF numeric_id.val.m <= 0 THEN PyNone
             ELSE numeric_id.val

\* _extract_numeric_product_id: None, or the id folded into 1..CatalogSize
extract_numeric_product_id(product_id) ==
    IF product_id.t = "none" THEN PyNone
    ELSE LET s0 == Strip(PyToStr(product_id))
             s1 == IF s0 # <<>> /\ UpperChar(s0[1]) = "P" THEN Strip(Tail(s0)) ELSE s0
             numeric_id == StrToInt(s1)
         IN  IF s0 = <<>> THEN PyNone
             ELSE IF ~numeric_id.ok THEN PyNone
             ELSE IF numeric_id.val.m <= 0 THEN PyNone
             ELSE PyInt(((numeric_id.val.m - 1) % CatalogSize) + 1)

NoMatch ==
    [API_Category |-> PyNone, API_Brand |-> PyNone,
     API_Rating |-> PyNone, API_Match |-> PyBool(FALSE)]

\* the body of the loop of enrich_sales_data for one transaction: tx_new.
\* The `except Exception` branch assigns the same four fields as the else
\* branch; with a lookup whose entries are dicts nothing in the try raises.
EnrichOneMatchAll(tx, product_mapping) ==
    LET numeric_id == extract_numeric_product_id(DictGet(tx, "ProductID"))
    IN  IF numeric_id.t # "none" /\ DOMAIN product_mapping # {}
        THEN LET info == product_mapping[CHOOSE k \in DOMAIN product_mapping : TRUE]
             IN  [API_Category |-> info.category, API_Brand |-> info.brand,
                  API_Rating |-> info.rating, API_Match |-> PyBool(TRUE)] @@ tx
        ELSE NoMatch @@ tx

EnrichOne(tx, product_mapping) ==
    LET numeric_id == extract_numeric_product_id(DictGet(tx, "ProductID"))
    IN  IF numeric_id.t # "none" /\ numeric_id.m \in DOMAIN product_mapping
        THEN LET info == product_mapping[numeric_id.m]
             IN  [API_Category |-> info.category, API_Brand |-> info.brand,
                  API_Rating |-> info.rating, API_Match |-> PyBool(TRUE)] @@ tx
        ELSE NoMatch @@ tx

EnrichLoopSkipping(transactions, i, product_mapping, enriched) ==
    SelectSeq([k \in 1..Len(transactions) |-> EnrichOne(transactions[k], product_mapping)],
              LAMBDA t : t["API_Match"] = PyBool(TRUE))

RECURSIVE EnrichLoop(_, _, _, _)
EnrichLoop(transactions, i, product_mapping, enriched) ==
    IF i > Len(transactions) THEN enriched
    ELSE EnrichLoop(transactions, i + 1, product_mapping,
                    Append(enriched, EnrichOne(transactions[i], product_mapping)))

\* the column names save_enriched_data writes and reads the records by
headers ==
    <<"TransactonID", "Date", "ProductID", "ProductName", "Quantity", "UnitPrice",
      "CustomerID", "Region", "API_Category", "API_Brand", "API_Rating", "API_Match">>

\* save_enriched_data: the rows written under the header line, each row the
\* cells that are joined with "|"
save_enriched_data(enriched_transactions) ==
    [r \in 1..Len(enriched_transactions) |->
        [c \in 1..Len(headers) |->
            LET val == DictGet(enriched_transactions[r], headers[c])
            IN  IF val.t = "none" THEN <<>> ELSE PyToStr(val)]]

\* the list enrich_sales_data returns
enrich_sales_data(transactions, product_mapping) ==
    EnrichLoop(transactions, 1, product_mapping, <<>>)

\* `tx_new = tx`: tx_new and tx name one dict
tx_new_shared(tx) == [shared |-> TRUE, tx |-> tx]

\* `tx_new = dict(tx) if isinstance(tx, dict) else {}`, for a record
tx_new(tx) == DictCopy(tx)

\* the argument list `transactions` after enrich_sales_data returned: the
\* API_* fields are assigned to tx_new; save_enriched_data only reads
enrich_sales_data_input(transactions, product_mapping) ==
    [i \in 1..Len(transactions) |->
        AfterWrites(tx_new(transactions[i]),
                    EnrichOne(transactions[i], product_mapping))]

(***************************************************************************)
(* Inputs: the lines of the sales file.                                    *)
(***************************************************************************)
\* T001|01|P101|Lap|2|45,000|C1|N   (valid, amount 90000, region N)
LineLaptop ==
    <<"T", "0", "0", "1", "|", "0", "1", "|", "P", "1", "0", "1", "|", "L", "a", "p", "|", "2", "|", "4", "5", ",", "0", "0", "0", "|", "C", "1", "|", "N">>
\* T2|01|P5|Mo|-1|500|C2|S   (negative quantity)
LineNegative ==
    <<"T", "2", "|", "0", "1", "|", "P", "5", "|", "M", "o", "|", "-", "1", "|", "5", "0", "0", "|", "C", "2", "|", "S">>
\* X3|02|P3|Kb|1|1500|C3|N   (TransactionID does not start with T)
LineBadTid ==
    <<"X", "3", "|", "0", "2", "|", "P", "3", "|", "K", "b", "|", "1", "|", "1", "5", "0", "0", "|", "C", "3", "|", "N">>
\* T4|02|P50|K,b|3|nan|C3|n   (unit price nan)
LineNaN ==
    <<"T", "4", "|", "0", "2", "|", "P", "5", "0", "|", "K", ",", "b", "|", "3", "|", "n", "a", "n", "|", "C", "3", "|", "n">>
\*  T5|02|P150|Mo|3| 500 |C2|S    (valid, amount 1500, region S, padded)
LineSouth ==
    <<" ", "T", "5", "|", "0", "2", "|", "P", "1", "5", "0", "|", "M", "o", "|", "3", "|", " ", "5", "0", "0", " ", "|", "C", "2", "|", "S", " ">>
\* T6|01|p5|Mo|1|2.5|C1|n   (ProductID does not start with P)
LineBadPid ==
    <<"T", "6", "|", "0", "1", "|", "p", "5", "|", "M", "o", "|", "1", "|", "2", ".", "5", "|", "C", "1", "|", "n">>
\* T7|01|P5|Mo|1|500|x1|N   (CustomerID does not start with C)
LineBadCid ==
    <<"T", "7", "|", "0", "1", "|", "P", "5", "|", "M", "o", "|", "1", "|", "5", "0", "0", "|", "x", "1", "|", "N">>
\* T8||P5|Mo|1|500|C1|N   (blank Date)
LineBlankDate ==
    <<"T", "8", "|", "|", "P", "5", "|", "M", "o", "|", "1", "|", "5", "0", "0", "|", "C", "1", "|", "N">>
\* T9|01|P5|Mo|1|500|C1   (seven fields)
LineShort ==
    <<"T", "9", "|", "0", "1", "|", "P", "5", "|", "M", "o", "|", "1", "|", "5", "0", "0", "|", "C", "1">>
\* T9|01|P5|Mo|1|500|C1|N|   (nine fields)
LineLong ==
    <<"T", "9", "|", "0", "1", "|", "P", "5", "|", "M", "o", "|", "1", "|", "5", "0", "0", "|", "C", "1", "|", "N", "|">>
\* T9|01|P5|Mo|1.5|0|C1|N   (quantity is no integer)
LineBadQty ==
    <<"T", "9", "|", "0", "1", "|", "P", "5", "|", "M", "o", "|", "1", ".", "5", "|", "0", "|", "C", "1", "|", "N">>
\* T0|01|P5|Mo|1,0|0|C1|S   (unit price 0)
LineZeroPrice ==
    <<"T", "0", "|", "0", "1", "|", "P", "5", "|", "M", "o", "|", "1", ",", "0", "|", "0", "|", "C", "1", "|", "S">>
\* (two blanks)   (blank line)
LineBlank ==
    <<" ", " ">>
\* the header line of the sales file, as written
HeaderLine ==
    <<"T", "r", "a", "n", "s", "a", "c", "t", "i", "o", "n", "I", "D", "|", "D", "a", "t", "e", "|", "P", "r", "o", "d", "u", "c", "t", "I", "D", "|", "P", "r", "o", "d", "u", "c", "t", "N", "a", "m", "e", "|", "Q", "u", "a", "n", "t", "i", "t", "y", "|", "U", "n", "i", "t", "P", "r", "i", "c", "e", "|", "C", "u", "s", "t", "o", "m", "e", "r", "I", "D", "|", "R", "e", "g", "i", "o", "n">>
\* the header text read_sales_data compares the lowered first line with
HeaderText ==
    <<"t", "r", "a", "n", "s", "a", "c", "t", "i", "o", "n", "i", "d", "|", "d", "a", "t", "e", "|", "p", "r", "o", "d", "u", "c", "t", "i", "d", "|", "p", "r", "o", "d", "u", "c", "t", "n", "a", "m", "e", "|", "q", "u", "a", "n", "t", "i", "t", "y", "|", "u", "n", "i", "t", "p", "r", "i", "c", "e", "|", "c", "u", "s", "t", "o", "m", "e", "r", "i", "d", "|", "r", "e", "g", "i", "o", "n">>

SampleLines ==
    {LineLaptop,
     LineNegative,
     LineBadTid,
     LineNaN,
     LineSouth,
     LineBadPid,
     LineBadCid,
     LineBlankDate,
     LineShort,
     LineLong,
     LineBadQty,
     LineZeroPrice,
     LineBlank,
     HeaderLine}

\* the sequences over S of length at most n
SeqsUpTo(S, n) == UNION {[1..k -> S] : k \in 0..n}

\* the contents of the sales file: its lines
FileContents == SeqsUpTo(SampleLines, MaxLines)

\* what the user types at the prompts of _get_filter_input
ChoiceInputs == {<<"y">>, <<"n">>}
RegionInputs == {<<>>, <<" ", "s">>}
MinInputs == {<<>>, <<"1", "5", "0", "0">>, <<"n", "a", "n">>, <<"x">>}
MaxInputs == {<<" ">>, <<"1", "5", "0", "0", ".", "0">>}

Electronics ==
    [id |-> PyInt(101), title |-> PyStr(<<"L", "a", "p", "t", "o", "p">>), category |-> PyStr(<<"e", "l", "e", "c", "t", "r", "o", "n", "i", "c", "s">>),
     brand |-> PyStr(<<"A", "c", "m", "e">>), price |-> PyInt(9), rating |-> PyFloat(45, 1)]
Phone ==
    [id |-> PyInt(1), title |-> PyStr(<<"i", "P", "h", "o", "n", "e">>), category |-> PyStr(<<"s", "m", "a", "r", "t", "p", "h", "o", "n", "e", "s">>),
     brand |-> PyStr(<<"A", "p", "p", "l", "e">>), price |-> PyInt(549), rating |-> PyFloat(469, 2)]
Mouse ==
    [id |-> PyStr(<<"5", "0">>), title |-> PyStr(<<"M", "o", "u", "s", "e">>), category |-> PyStr(<<"a", "c", "c", "e", "s", "s", "o", "r", "i", "e", "s">>),
     brand |-> PyNone, price |-> PyInt(5), rating |-> PyInt(4)]
NoId ==
    [title |-> PyStr(<<"G", "h", "o", "s", "t">>), category |-> PyStr(<<"n", "o", "n", "e">>)]

\* the "products" list of the catalogue's answer
Payloads == {<<Phone, Mouse, NoId>>, <<Electronics>>}

(***************************************************************************)
(* read_sales_data (src/utils/file_handler.py), for a file that exists and *)
(* decodes: the stripped non-blank lines, without a leading header line.   *)
(***************************************************************************)
IsPrefix(p, s) == Len(p) <= Len(s) /\ SubSeq(s, 1, Len(p)) = p

read_sales_data(content) ==
    LET stripped == [i \in 1..Len(content) |-> Strip(content[i])]
        lines == SelectSeq(stripped, LAMBDA ln : ln # <<>>)
    IN  IF lines # <<>> /\ IsPrefix(HeaderText, Lower(lines[1]))
        THEN Tail(lines)
        ELSE lines

(***************************************************************************)
(* _get_filter_input and fetch_all_products                                *)
(***************************************************************************)
\* to_float_or_none(x)
to_float_or_none(x) ==
    IF Strip(x) = <<>> THEN PyNone
    ELSE IF StrToFloat(Strip(x)).ok THEN StrToFloat(Strip(x)).val
    ELSE PyNone

\* returns (region, min_amount, max_amount)
get_filter_input(choice, region_in, min_in, max_in) ==
    IF Lower(Strip(choice)) # <<"y">>
    THEN [region |-> PyNone, min_amount |-> PyNone, max_amount |-> PyNone]
    ELSE [region |-> IF Strip(region_in) = <<>> THEN PyNone ELSE PyStr(Strip(region_in)),
          min_amount |-> to_float_or_none(min_in),
          max_amount |-> to_float_or_none(max_in)]

\* the results list fetch_all_products builds from the payload's products;
\* it reads the key "Price", which no product has
FetchedProduct(p) ==
    [id |-> DictGet(p, "id"), title |-> DictGet(p, "title"),
     category |-> DictGet(p, "category"), brand |-> DictGet(p, "brand"),
     price |-> DictGet(p, "Price"), rating |-> DictGet(p, "rating")]

fetch_all_products(products) == [i \in 1..Len(products) |-> FetchedProduct(products[i])]

(***************************************************************************)
(* Python arithmetic, ordering and sorting used by the aggregators.        *)
(***************************************************************************)
\* d.get(k, default)
DictGetOr(d, k, default) == IF k \in DOMAIN d THEN d[k] ELSE default

\* x + y of Python numbers: int + int is an int, anything else a float
NumAdd(x, y) ==
    IF x.t = "nan" \/ y.t = "nan" THEN PyNaN
    ELSE IF x.t = "int" /\ y.t = "int" THEN PyInt(x.m + y.m)
    ELSE LET e == IF x.e > y.e THEN x.e ELSE y.e
         IN  PyFloat(x.m * Pow10(e - x.e) + y.m * Pow10(e - y.e), e)

\* x / y * 100 cut off after two decimals
TruncatedPercentage(x, y) ==
    PyFloat((x.m * Pow10(y.e) * 10000) \div (y.m * Pow10(x.e)), 2)

\* q + r / den carried to `digits` more decimal digits, by long division
RECURSIVE LongDivision(_, _, _, _)
LongDivision(q, r, den, digits) ==
    IF digits = 0 THEN [q |-> q, r |-> r]
    ELSE LongDivision(q * 10 + ((r * 10) \div den), (r * 10) % den, den, digits - 1)

\* round(x / y * 100, 2) for y > 0: the quotient in hundredths, halves to even
RoundedPercentage(x, y) ==
    LET num == x.m * Pow10(y.e)
        den == y.m * Pow10(x.e)
        d == LongDivision(num \div den, num % den, den, 4)
    IN  PyFloat(IF 2 * d.r > den \/ (2 * d.r = den /\ d.q % 2 = 1)
                THEN d.q + 1 ELSE d.q, 2)

\* the characters of the model in code-point order
CodePoints ==
    <<" ", "+", ",", "-", ".">> \o DigitChars \o UpperChars \o LowerChars \o <<"|">>

Ord(c) == CHOOSE i \in 1..Len(CodePoints) : CodePoints[i] = c

\* a < b of two str
RECURSIVE StrLt(_, _)
StrLt(a, b) ==
    IF b = <<>> THEN FALSE
    ELSE IF a = <<>> THEN TRUE
    ELSE IF a[1] = b[1] THEN StrLt(Tail(a), Tail(b))
    ELSE Ord(a[1]) < Ord(b[1])

\* a < b of two sort keys (both str, or both numbers)
PyLt(a, b) == IF a.t = "str" /\ b.t = "str" THEN StrLt(a.s, b.s) ELSE NumLt(a, b)

\* list.sort of CPython for a list shorter than 64 (one run, no merging), on
\* a list of [k |-> key, v |-> item]: count_run finds the leading run...
RECURSIVE CountRun(_, _, _)
CountRun(a, n, descending) ==
    IF n = Len(a) THEN n
    ELSE IF PyLt(a[n + 1].k, a[n].k) = descending
         THEN CountRun(a, n + 1, descending)
         ELSE n

\* ... binarysort inserts each later element after the last one not
\* greater than it ...
RECURSIVE InsertPoint(_, _, _, _)
InsertPoint(a, pivot, l, r) ==
    IF l >= r THEN l
    ELSE LET p == l + ((r - l) \div 2)
         IN  IF PyLt(pivot.k, a[p + 1].k) THEN InsertPoint(a, pivot, l, p)
             ELSE InsertPoint(a, pivot, p + 1, r)

RECURSIVE BinarySort(_, _)
BinarySort(a, start) ==
    IF start >= Len(a) THEN a
    ELSE LET pivot == a[start + 1]
             l == InsertPoint(a, pivot, 0, start)
         IN  BinarySort(SubSeq(a, 1, l) \o <<pivot>> \o SubSeq(a, l + 1, start)
                        \o SubSeq(a, start + 2, Len(a)), start + 1)

\* `reversed` around the sort of a list sorted with reverse=True
ReversedIf(reverse, a) == IF reverse THEN Reverse(a) ELSE a

\* ... binarysort after the leading run of length n, which is reversed in
\* place when it is descending ...
SortAfterRun(a, descending, n) ==
    BinarySort(IF descending
               THEN Reverse(SubSeq(a, 1, n)) \o SubSeq(a, n + 1, Len(a))
               ELSE a,
               n)

SortFrom(a, descending) ==
    SortAfterRun(a, descending,
                 IF Len(a) < 2 THEN Len(a) ELSE CountRun(a, 2, descending))

\* ... and reverse=True reverses the list before and after
ListSort(items, reverse) ==
    LET a == ReversedIf(reverse, items)
    IN  ReversedIf(reverse, SortFrom(a, Len(a) >= 2 /\ PyLt(a[2].k, a[1].k)))

\* max(items, key=...) on a non-empty list of [k, v]: the first item that no
\* later item exceeds
RECURSIVE MaxLoop(_, _, _)
MaxLoop(items, i, best) ==
    IF i > Len(items) THEN best
    ELSE MaxLoop(items, i + 1, IF PyLt(best.k, items[i].k) THEN items[i] ELSE best)

PyMax(items) == MaxLoop(items, 2, items[1])

\* `[F(x) for x in items]`
Map(items, F(_)) == [j \in 1..Len(items) |-> F(items[j])]

\* sorted(items, key=Key, reverse=reverse), and items.sort(key=..., reverse=...)
Sorted(items, Key(_), reverse) ==
    Map(ListSort(Map(items, LAMBDA x : [k |-> Key(x), v |-> x]), reverse),
        LAMBDA item : item.v)

\* max(items, key=Key) on a non-empty list
Max(items, Key(_)) == PyMax(Map(items, LAMBDA x : [k |-> Key(x), v |-> x])).v

\* the position of the entry of a dict (a list of entries in insertion order)
\* under a key, 0 when the key is not in it
KeyIndex(d, key) ==
    IF \E j \in 1..Len(d) : d[j].key = key
    THEN CHOOSE j \in 1..Len(d) : d[j].key = key
    ELSE 0

\* the Python set of the items of a list, as the list of its distinct items
RECURSIVE Distinct(_)
Distinct(s) ==
    IF s = <<>> THEN <<>>
    ELSE LET rest == Distinct(SubSeq(s, 1, Len(s) - 1))
             last == s[Len(s)]
         IN  IF \E j \in 1..Len(rest) : rest[j] = last THEN rest
             ELSE Append(rest, last)

(***************************************************************************)
(* The aggregators (src/utils/data_processor.py).  A dict is the list of   *)
(* its entries in insertion order.  Each accumulation loop is a fold of    *)
(* its body, which is given the transaction and its amount.                *)
(***************************************************************************)
\* `amount = quantity * unit_price` from the two conversions
AmountOf(quantity, unit_price) ==
    IF quantity.ok /\ unit_price.ok
    THEN [ok |-> TRUE, quantity |-> quantity.val,
          amount |-> NumMul(quantity.val, unit_price.val)]
    ELSE [ok |-> FALSE, quantity |-> PyNone, amount |-> PyNone]

\* quantity * unit_price of one transaction; ok = FALSE is the ValueError or
\* TypeError that makes every aggregator skip the transaction
TxAmount(tx) ==
    AmountOf(PyToInt(DictGetOr(tx, "Quantity", PyInt(0))),
             PyToFloat(DictGetOr(tx, "UnitPrice", PyFloat(0, 0))))

RECURSIVE calculate_total_revenue_from(_, _, _)
calculate_total_revenue_from(transactions, i, total_revenue) ==
    IF i > Len(transactions) THEN total_revenue
    ELSE LET a == TxAmount(transactions[i])
         IN  calculate_total_revenue_from(transactions, i + 1,
                 IF a.ok THEN NumAdd(total_revenue, a.amount) ELSE total_revenue)

calculate_total_revenue(transactions) ==
    calculate_total_revenue_from(transactions, 1, PyFloat(0, 0))

\* the body of the accumulation loop of region_wise_sales
RegionStep(acc, tx, a) ==
    LET region == DictGet(tx, "Region")
        j == KeyIndex(acc.region_stats, region)
        opened == IF j = 0
                  THEN Append(acc.region_stats,
                              [key |-> region, total_sales |-> PyFloat(0, 0),
                               transaction_count |-> 0])
                  ELSE acc.region_stats
        k == IF j = 0 THEN Len(opened) ELSE j
    IN  IF ~a.ok THEN acc
        ELSE [region_stats |-> [opened EXCEPT
                                  ![k].total_sales = NumAdd(@, a.amount),
                                  ![k].transaction_count = @ + 1],
              grand_total |-> NumAdd(acc.grand_total, a.amount)]

\* the accumulation loop of region_wise_sales
RECURSIVE RegionLoop(_, _, _)
RegionLoop(transactions, i, acc) ==
    IF i > Len(transactions) THEN acc
    ELSE RegionLoop(transactions, i + 1,
                    RegionStep(acc, transactions[i], TxAmount(transactions[i])))

\* the percentage loop of region_wise_sales
RegionPercentages(acc) ==
    Map(acc.region_stats,
        LAMBDA s : [key |-> s.key, total_sales |-> s.total_sales,
                    transaction_count |-> s.transaction_count,
                    percentage |->
                       IF NumGt(acc.grand_total, PyInt(0))
                       THEN RoundedPercentage(s.total_sales, acc.grand_total)
                       ELSE PyFloat(0, 0)])

\* region_wise_sales: the entries of the returned dict, in its order
region_wise_sales(transactions) ==
    Sorted(RegionPercentages(
               RegionLoop(transactions, 1,
                          [region_stats |-> <<>>, grand_total |-> PyFloat(0, 0)])),
           LAMBDA item : item.total_sales, TRUE)

\* the body of the accumulation loop of top_selling_products
ProductStep(product_stats, tx, a) ==
    LET product_name == DictGet(tx, "ProductName")
        j == KeyIndex(product_stats, product_name)
        opened == IF j = 0
                  THEN Append(product_stats,
                              [key |-> product_name, total_quantity |-> PyInt(0),
                               total_revenue |-> PyFloat(0, 0)])
                  ELSE product_stats
        k == IF j = 0 THEN Len(opened) ELSE j
    IN  IF ~a.ok THEN product_stats
        ELSE [opened EXCEPT
                ![k].total_quantity = NumAdd(@, a.quantity),
                ![k].total_revenue = NumAdd(@, a.amount)]

\* the accumulation loop of top_selling_products
RECURSIVE ProductLoop(_, _, _)
ProductLoop(transactions, i, product_stats) ==
    IF i > Len(transactions) THEN product_stats
    ELSE ProductLoop(transactions, i + 1,
                     ProductStep(product_stats, transactions[i],
                                 TxAmount(transactions[i])))

\* a[:n]
Take(a, n) == SubSeq(a, 1, IF n < Len(a) THEN n ELSE Len(a))

\* top_selling_products: tuples (ProductName, TotalQuantity, TotalRevenue)
top_selling_products(transactions, n) ==
    Map(Take(Sorted(ProductLoop(transactions, 1, <<>>),
                    LAMBDA item : item.total_quantity, TRUE), n),
        LAMBDA stats : <<stats.key, stats.total_quantity, stats.total_revenue>>)

\* `x is not None and str(x).strip() != ""`
NotBlank(x) == x.t # "none" /\ Strip(PyToStr(x)) # <<>>

\* round(x / count, 2) for count > 0: halves to even, NaN stays NaN
RoundedAverage(x, count) ==
    IF x.t = "nan" THEN PyNaN
    ELSE LET num == x.m * 100
             den == count * Pow10(x.e)
             q == num \div den
             r == num % den
         IN  PyFloat(IF 2 * r > den \/ (2 * r = den /\ q % 2 = 1) THEN q + 1 ELSE q, 2)

\* the body of the accumulation loop of customer_analysis
CustomerStep(customer_stats, tx, a) ==
    LET customer_id == DictGet(tx, "CustomerID")
        product_name == DictGet(tx, "ProductName")
        j == KeyIndex(customer_stats, customer_id)
        opened == IF j = 0
                  THEN Append(customer_stats,
                              [key |-> customer_id, total_spent |-> PyFloat(0, 0),
                               purchase_count |-> 0, products_bought |-> <<>>])
                  ELSE customer_stats
        k == IF j = 0 THEN Len(opened) ELSE j
    IN  IF ~a.ok THEN customer_stats
        ELSE [opened EXCEPT
                ![k].total_spent = NumAdd(@, a.amount),
                ![k].purchase_count = @ + 1,
                ![k].products_bought =
                    IF NotBlank(product_name)
                    THEN Distinct(Append(@, product_name)) ELSE @]

\* the accumulation loop of customer_analysis
RECURSIVE CustomerLoop(_, _, _)
CustomerLoop(transactions, i, customer_stats) ==
    IF i > Len(transactions) THEN customer_stats
    ELSE CustomerLoop(transactions, i + 1,
                      CustomerStep(customer_stats, transactions[i],
                                   TxAmount(transactions[i])))

\* the loop of customer_analysis that sets avg_order_value and sorts the
\* product names of each customer
CustomerAverages(customer_stats) ==
    Map(customer_stats,
        LAMBDA stats : [key |-> stats.key, total_spent |-> stats.total_spent,
                        purchase_count |-> stats.purchase_count,
                        avg_order_value |->
                           IF stats.purchase_count > 0
                           THEN RoundedAverage(stats.total_spent, stats.purchase_count)
                           ELSE PyFloat(0, 0),
                        products_bought |->
                           Sorted(stats.products_bought, LAMBDA p : p, FALSE)])

\* customer_analysis: the entries of the returned dict, in its order
customer_analysis(transactions) ==
    Sorted(CustomerAverages(CustomerLoop(transactions, 1, <<>>)),
           LAMBDA item : item.total_spent, TRUE)

\* the body of the accumulation loop of daily_sales_trend
DailyStep(daily, tx, a) ==
    LET date == DictGet(tx, "Date")
        customer_id == DictGet(tx, "CustomerID")
        j == KeyIndex(daily, date)
        opened == IF j = 0
                  THEN Append(daily,
                              [key |-> date, revenue |-> PyFloat(0, 0),
                               transaction_count |-> 0,
                               unique_customers |-> <<>>])
                  ELSE daily
        k == IF j = 0 THEN Len(opened) ELSE j
    IN  IF ~a.ok THEN daily
        ELSE [opened EXCEPT
                ![k].revenue = NumAdd(@, a.amount),
                ![k].transaction_count = @ + 1,
                ![k].unique_customers =
                    IF NotBlank(customer_id)
                    THEN Distinct(Append(@, customer_id)) ELSE @]

\* the accumulation loop of daily_sales_trend
RECURSIVE DailyLoop(_, _, _)
DailyLoop(transactions, i, daily) ==
    IF i > Len(transactions) THEN daily
    ELSE DailyLoop(transactions, i + 1,
                   DailyStep(daily, transactions[i], TxAmount(transactions[i])))

\* daily_sales_trend: the entries of the returned dict, in its order
daily_sales_trend(transactions) ==
    Sorted(Map(DailyLoop(transactions, 1, <<>>),
               LAMBDA d : [key |-> d.key, revenue |-> d.revenue,
                           transaction_count |-> d.transaction_count,
                           unique_customers |-> Len(d.unique_customers)]),
           LAMBDA item : item.key, FALSE)

\* the body of the accumulation loop of find_peak_sales_day: the statement
\* `daily_totals[date]["transaction_count"] +1` computes a sum and drops it,
\* so transaction_count stays 0
PeakStep(daily_totals, tx, a) ==
    LET date == DictGet(tx, "Date")
        j == KeyIndex(daily_totals, date)
        opened == IF j = 0
                  THEN Append(daily_totals,
                              [key |-> date, revenue |-> PyFloat(0, 0),
                               transaction_count |-> 0])
                  ELSE daily_totals
        k == IF j = 0 THEN Len(opened) ELSE j
    IN  IF ~a.ok THEN daily_totals
        ELSE [opened EXCEPT ![k].revenue = NumAdd(@, a.amount)]

\* the accumulation loop of find_peak_sales_day
RECURSIVE PeakLoop(_, _, _)
PeakLoop(transactions, i, daily_totals) ==
    IF i > Len(transactions) THEN daily_totals
    ELSE PeakLoop(transactions, i + 1,
                  PeakStep(daily_totals, transactions[i], TxAmount(transactions[i])))

\* the return statements of find_peak_sales_day
PeakOfTotals(daily_totals) ==
    IF daily_totals = <<>> THEN <<PyNone, PyFloat(0, 0), 0>>
    ELSE LET peak == Max(daily_totals, LAMBDA item : item.revenue)
         IN  <<peak.key, peak.revenue, peak.transaction_count>>

\* find_peak_sales_day: (date, revenue, transaction_count)
find_peak_sales_day(transactions) == PeakOfTotals(PeakLoop(transactions, 1, <<>>))

\* the accumulation loop of low_performing_products, whose body is that of
\* top_selling_products
RECURSIVE LowProductLoop(_, _, _)
LowProductLoop(transactions, i, product_stats) ==
    IF i > Len(transactions) THEN product_stats
    ELSE LowProductLoop(transactions, i + 1,
                        ProductStep(product_stats, transactions[i],
                                    TxAmount(transactions[i])))

\* low_performing_products with `<= threshold` for `< threshold`
low_performing_products_inclusive(transactions, threshold) ==
    Map(Sorted(SelectSeq(LowProductLoop(transactions, 1, <<>>),
                         LAMBDA stats : NumLe(stats.total_quantity, PyInt(threshold))),
               LAMBDA item : item.total_quantity, FALSE),
        LAMBDA stats : <<stats.key, stats.total_quantity, stats.total_revenue>>)

\* low_performing_products: tuples (ProductName, TotalQuantity, TotalRevenue)
low_performing_products(transactions, threshold) ==
    Map(Sorted(SelectSeq(LowProductLoop(transactions, 1, <<>>),
                         LAMBDA stats : NumLt(stats.total_quantity, PyInt(threshold))),
               LAMBDA item : item.total_quantity, FALSE),
        LAMBDA stats : <<stats.key, stats.total_quantity, stats.total_revenue>>)

(***************************************************************************)
(* The report renderer (src/utils/report_generator.py).  It recomputes its *)
(* own aggregates from the transactions it is given.  The model keeps the  *)
(* values each section is rendered from, with percentages and averages at  *)
(* the two decimals they are printed with; the layout of the lines, the    *)
(* time stamp and the average-by-region table are left out.                *)
(***************************************************************************)
\* bool(x)
Truthy(x) ==
    CASE x.t = "none" -> FALSE
      [] x.t = "str" -> x.s # <<>>
      [] x.t = "nan" -> TRUE
      [] OTHER -> x.m # 0

\* `try: return conversion  except Exception: return default`
OrDefault(conversion, default) == IF conversion.ok THEN conversion.val ELSE default

safe_float(x) == OrDefault(PyToFloat(x), PyFloat(0, 0))

safe_int(x) == OrDefault(PyToInt(x), PyInt(0))

tx_amount(tx) ==
    NumMul(safe_int(DictGetOr(tx, "Quantity", PyInt(0))),
           safe_float(DictGetOr(tx, "UnitPrice", PyFloat(0, 0))))

Unknown == PyStr(<<"U", "n", "k", "n", "o", "w", "n">>)

\* min(dates) and max(dates) of a non-empty list of str
RECURSIVE MinStr(_)
MinStr(dates) ==
    IF Len(dates) = 1 THEN dates[1]
    ELSE LET m == MinStr(SubSeq(dates, 1, Len(dates) - 1))
         IN  IF PyLt(dates[Len(dates)], m) THEN dates[Len(dates)] ELSE m

RECURSIVE MaxStr(_)
MaxStr(dates) ==
    IF Len(dates) = 1 THEN dates[1]
    ELSE LET m == MaxStr(SubSeq(dates, 1, Len(dates) - 1))
         IN  IF PyLt(m, dates[Len(dates)]) THEN dates[Len(dates)] ELSE m

date_range(transactions) ==
    LET with_date == SelectSeq(transactions, LAMBDA t : Truthy(DictGet(t, "Date")))
        dates == [j \in 1..Len(with_date) |-> DictGet(with_date[j], "Date")]
    IN  IF dates = <<>> THEN <<PyNone, PyNone>> ELSE <<MinStr(dates), MaxStr(dates)>>

\* the body of the accumulation loop of _region_table
RegionTableStep(acc, t, amt) ==
    LET region == DictGetOr(t, "Region", Unknown)
        j == KeyIndex(acc.region_stats, region)
        opened == IF j = 0
                  THEN Append(acc.region_stats,
                              [key |-> region, sales |-> PyFloat(0, 0), count |-> 0])
                  ELSE acc.region_stats
        k == IF j = 0 THEN Len(opened) ELSE j
    IN  [region_stats |-> [opened EXCEPT ![k].sales = NumAdd(@, amt),
                                         ![k].count = @ + 1],
         total |-> NumAdd(acc.total, amt)]

RECURSIVE RegionTableLoop(_, _, _)
RegionTableLoop(transactions, i, acc) ==
    IF i > Len(transactions) THEN acc
    ELSE RegionTableLoop(transactions, i + 1,
                         RegionTableStep(acc, transactions[i],
                                         tx_amount(transactions[i])))

\* the rows (region, sales, pct, count) of _region_table before they are sorted
RegionRows(acc) ==
    Map(acc.region_stats,
        LAMBDA s : <<s.key, s.sales,
                     IF NumGt(acc.total, PyInt(0))
                     THEN RoundedPercentage(s.sales, acc.total)
                     ELSE PyFloat(0, 0),
                     s.count>>)

\* `rows.sort(key=lambda r: r[1], reverse=True)` and the return of _region_table
RegionTableOf(acc) ==
    [rows |-> Sorted(RegionRows(acc), LAMBDA r : r[2], TRUE), total |-> acc.total]

\* _region_table without `rows.sort(...)`: the rows in first-seen order
region_table_unsorted(transactions) ==
    LET acc == RegionTableLoop(transactions, 1,
                               [region_stats |-> <<>>, total |-> PyFloat(0, 0)])
    IN  [rows |-> RegionRows(acc), total |-> acc.total]

\* _region_table: rows (region, sales, pct, count) and the total
region_table(transactions) ==
    RegionTableOf(RegionTableLoop(transactions, 1,
                                  [region_stats |-> <<>>, total |-> PyFloat(0, 0)]))

\* the body of the accumulation loops of _top_products and _low_performers
ProdStep(prod, t, rev) ==
    LET name == DictGetOr(t, "ProductName", Unknown)
        qty == safe_int(DictGetOr(t, "Quantity", PyInt(0)))
        j == KeyIndex(prod, name)
        opened == IF j = 0
                  THEN Append(prod, [key |-> name, qty |-> PyInt(0),
                                     rev |-> PyFloat(0, 0)])
                  ELSE prod
        k == IF j = 0 THEN Len(opened) ELSE j
    IN  [opened EXCEPT ![k].qty = NumAdd(@, qty), ![k].rev = NumAdd(@, rev)]

RECURSIVE ProdLoop(_, _, _)
ProdLoop(transactions, i, prod) ==
    IF i > Len(transactions) THEN prod
    ELSE ProdLoop(transactions, i + 1,
                  ProdStep(prod, transactions[i], tx_amount(transactions[i])))

\* _top_products
top_products(transactions, n) ==
    Take(Sorted(Map(ProdLoop(transactions, 1, <<>>),
                    LAMBDA s : <<s.key, s.qty, s.rev>>),
                LAMBDA x : x[2], TRUE), n)

\* the body of the accumulation loop of _top_customers
CustStep(cust, t, amt) ==
    LET cid == DictGetOr(t, "CustomerID", Unknown)
        j == KeyIndex(cust, cid)
        opened == IF j = 0
                  THEN Append(cust, [key |-> cid, spent |-> PyFloat(0, 0),
                                     count |-> 0])
                  ELSE cust
        k == IF j = 0 THEN Len(opened) ELSE j
    IN  [opened EXCEPT ![k].spent = NumAdd(@, amt), ![k].count = @ + 1]

RECURSIVE CustLoop(_, _, _)
CustLoop(transactions, i, cust) ==
    IF i > Len(transactions) THEN cust
    ELSE CustLoop(transactions, i + 1,
                  CustStep(cust, transactions[i], tx_amount(transactions[i])))

\* _top_customers
top_customers(transactions, n) ==
    Take(Sorted(Map(CustLoop(transactions, 1, <<>>),
                    LAMBDA s : <<s.key, s.spent, s.count>>),
                LAMBDA x : x[2], TRUE), n)

\* the body of the accumulation loop of _daily_trend
TrendStep(daily, t, amt) ==
    LET date == DictGetOr(t, "Date", Unknown)
        cid == DictGetOr(t, "CustomerID", PyStr(<<>>))
        j == KeyIndex(daily, date)
        opened == IF j = 0
                  THEN Append(daily, [key |-> date, rev |-> PyFloat(0, 0),
                                      count |-> 0, customers |-> <<>>])
                  ELSE daily
        k == IF j = 0 THEN Len(opened) ELSE j
    IN  [opened EXCEPT
           ![k].rev = NumAdd(@, amt),
           ![k].count = @ + 1,
           ![k].customers = IF Truthy(cid) THEN Distinct(Append(@, cid)) ELSE @]

RECURSIVE TrendLoop(_, _, _)
TrendLoop(transactions, i, daily) ==
    IF i > Len(transactions) THEN daily
    ELSE TrendLoop(transactions, i + 1,
                   TrendStep(daily, transactions[i], tx_amount(transactions[i])))

\* _daily_trend: rows (date, rev, count, number of customers)
daily_trend(transactions) ==
    Sorted(Map(TrendLoop(transactions, 1, <<>>),
               LAMBDA s : <<s.key, s.rev, s.count, Len(s.customers)>>),
           LAMBDA x : x[1], FALSE)

\* the return statements of _peak_day
PeakOfTrend(trend) ==
    IF trend = <<>> THEN <<PyNone, PyFloat(0, 0), 0>>
    ELSE LET best == Max(trend, LAMBDA x : x[2])
         IN  <<best[1], best[2], best[3]>>

\* _peak_day
peak_day(transactions) == PeakOfTrend(daily_trend(transactions))

RECURSIVE LowLoop(_, _, _)
LowLoop(transactions, i, prod) ==
    IF i > Len(transactions) THEN prod
    ELSE LowLoop(transactions, i + 1,
                 ProdStep(prod, transactions[i], tx_amount(transactions[i])))

\* _low_performers
low_performers(transactions, threshold) ==
    Sorted(SelectSeq(Map(LowLoop(transactions, 1, <<>>),
                         LAMBDA s : <<s.key, s.qty, s.rev>>),
                     LAMBDA item : NumLt(item[2], PyInt(threshold))),
           LAMBDA x : x[2], FALSE)

\* the sorted ids of the unmatched transactions that have a ProductID
NotMatchedIds(enriched_transactions) ==
    Sorted(Distinct(Map(SelectSeq(enriched_transactions,
                            LAMBDA t : /\ DictGet(t, "API_Match") = PyBool(FALSE)
                                       /\ Truthy(DictGet(t, "ProductID"))),
                        LAMBDA t : DictGet(t, "ProductID"))),
           LAMBDA id : id, FALSE)

\* _api_enrichment_summary: (total, matched, rate, not_matched_ids)
api_enrichment_summary(enriched_transactions) ==
    LET total == Len(enriched_transactions)
        matched == Len(SelectSeq(enriched_transactions,
                          LAMBDA t : DictGet(t, "API_Match") = PyBool(TRUE)))
    IN  [total |-> total,
         matched |-> matched,
         rate |-> IF total > 0 THEN RoundedPercentage(PyInt(matched), PyInt(total))
                  ELSE PyFloat(0, 0),
         not_matched_ids |-> NotMatchedIds(enriched_transactions)]

RECURSIVE SumAmounts(_, _, _)
SumAmounts(transactions, i, total) ==
    IF i > Len(transactions) THEN total
    ELSE SumAmounts(transactions, i + 1, NumAdd(total, tx_amount(transactions[i])))

\* the values generate_sales_report renders, from the total revenue and the
\* region table it computed
ReportValues(transactions, enriched_transactions, total_revenue, region) ==
    [written |-> TRUE,
     records_processed |-> Len(transactions),
     total_revenue |-> total_revenue,
     total_tx |-> Len(transactions),
     avg_order_value |-> IF Len(transactions) > 0
                         THEN RoundedAverage(total_revenue, Len(transactions))
                         ELSE PyFloat(0, 0),
     date_range |-> date_range(transactions),
     region_rows |-> region.rows,
     grand_total |-> region.total,
     top_products |-> top_products(transactions, 5),
     top_customers |-> top_customers(transactions, 5),
     daily_rows |-> daily_trend(transactions),
     peak |-> peak_day(transactions),
     low_products |-> low_performers(transactions, 10),
     api |-> api_enrichment_summary(enriched_transactions)]

\* generate_sales_report: the values written to output/sales_report.txt
generate_sales_report(transactions, enriched_transactions) ==
    ReportValues(transactions, enriched_transactions,
                 SumAmounts(transactions, 1, PyInt(0)), region_table(transactions))

(***************************************************************************)
(* The state of a run of main (src/main.py).                               *)
(***************************************************************************)
VARIABLES
    pc,              \* the step main is at
    raw_lines,       \* main: raw_lines
    parsed,          \* main: parsed
    region_filter,   \* main: region_filter
    min_amount,      \* main: min_amount
    max_amount,      \* main: max_amount
    valid,           \* main: valid
    invalid_count,   \* main: invalid_count
    summary,         \* main: summary
    api_products,    \* main: api_products
    product_mapping, \* main: product_mapping
    enriched,        \* main: enriched
    enriched_file,   \* the rows of data/enriched_sales_data.txt
    again,           \* the result of a second validate_and_filter call
    product_id,      \* the argument of _extract_numeric_product_id
    numeric_id,      \* the result of _extract_numeric_product_id
    analysis,        \* the aggregates main computes at [5/10]
    report,          \* what generate_sales_report wrote to output/sales_report.txt
    caught           \* the exception main caught, "none" while it has caught none

vars ==
    <<pc, raw_lines, parsed, region_filter, min_amount, max_amount, valid,
      invalid_count, summary, api_products, product_mapping, enriched,
      enriched_file, again, product_id, numeric_id, analysis, report,
      caught>>

NoSummary ==
    [total_input |-> 0, invalid |-> 0, filtered_by_region |-> 0,
     filtered_by_amount |-> 0, final_count |-> 0]

NoResult == [valid |-> <<>>, invalid_count |-> 0, summary |-> NoSummary]

\* before [5/10]: no aggregate has been computed
NoAnalysis ==
    [computed |-> FALSE, total_revenue |-> PyNone, region_stats |-> <<>>,
     top_products |-> <<>>, customers |-> <<>>, daily |-> <<>>,
     peak |-> <<>>, low_products |-> <<>>]

\* before [9/10]: output/sales_report.txt has not been written
NoReport ==
    [written |-> FALSE, records_processed |-> 0, total_revenue |-> PyNone,
     total_tx |-> 0, avg_order_value |-> PyNone, date_range |-> <<>>,
     region_rows |-> <<>>, grand_total |-> PyNone, top_products |-> <<>>,
     top_customers |-> <<>>, daily_rows |-> <<>>, peak |-> <<>>,
     low_products |-> <<>>,
     api |-> [total |-> 0, matched |-> 0, rate |-> PyNone, not_matched_ids |-> <<>>]]

Init ==
    /\ pc = "read"
    /\ raw_lines = <<>>
    /\ parsed = <<>>
    /\ region_filter = PyNone
    /\ min_amount = PyNone
    /\ max_amount = PyNone
    /\ valid = <<>>
    /\ invalid_count = 0
    /\ summary = NoSummary
    /\ api_products = <<>>
    /\ product_mapping = <<>>
    /\ enriched = <<>>
    /\ enriched_file = <<>>
    /\ again = NoResult
    /\ product_id = PyNone
    /\ numeric_id = PyNone
    /\ analysis = NoAnalysis
    /\ report = NoReport
    /\ caught = "none"

\* [1/10] read_sales_data finds the file and returns its lines
ReadSalesData ==
    /\ pc = "read"
    /\ \E content \in FileContents : raw_lines' = read_sales_data(content)
    /\ pc' = "parse"
    /\ UNCHANGED <<parsed, region_filter, min_amount, max_amount, valid,
                   invalid_count, summary, api_products, product_mapping,
                   enriched, enriched_file, again, product_id, numeric_id,
                   analysis, report, caught>>

\* the except clauses of main: where main ends after the exception
main_except_generic(exception) == "unexpected_error"

main_except(exception) ==
    IF exception = "FileNotFoundError" THEN "file_not_found" ELSE "unexpected_error"

\* [1/10] read_sales_data raises FileNotFoundError: main prints it and returns
FileNotFound ==
    /\ pc = "read"
    /\ caught' = "FileNotFoundError"
    /\ pc' = main_except("FileNotFoundError")
    /\ UNCHANGED <<raw_lines, parsed, region_filter, min_amount, max_amount, valid,
                   invalid_count, summary, api_products, product_mapping,
                   enriched, enriched_file, again, product_id, numeric_id,
                   analysis, report>>

\* [1/10] the path exists but cannot be opened as a file (it is a directory):
\* path.open raises IsADirectoryError, an OSError that read_sales_data does
\* not catch
ReadFails ==
    /\ pc = "read"
    /\ caught' = "IsADirectoryError"
    /\ pc' = main_except("IsADirectoryError")
    /\ UNCHANGED <<raw_lines, parsed, region_filter, min_amount, max_amount, valid,
                   invalid_count, summary, api_products, product_mapping,
                   enriched, enriched_file, again, product_id, numeric_id,
                   analysis, report>>

\* [2/10]
ParseTransactions ==
    /\ pc = "parse"
    /\ parsed' = parse_transactions(raw_lines)
    /\ pc' = "filter_input"
    /\ UNCHANGED <<raw_lines, region_filter, min_amount, max_amount, valid,
                   invalid_count, summary, api_products, product_mapping,
                   enriched, enriched_file, again, product_id, numeric_id,
                   analysis, report, caught>>

\* [3/10] the user answers the prompts
GetFilterInput ==
    /\ pc = "filter_input"
    /\ \E choice \in ChoiceInputs, region_in \in RegionInputs,
          min_in \in MinInputs, max_in \in MaxInputs :
          LET r == get_filter_input(choice, region_in, min_in, max_in)
          IN  /\ region_filter' = r.region
              /\ min_amount' = r.min_amount
              /\ max_amount' = r.max_amount
    /\ pc' = "validate"
    /\ UNCHANGED <<raw_lines, parsed, valid, invalid_count, summary, api_products,
                   product_mapping, enriched, enriched_file, again, product_id,
                   numeric_id,
                   analysis, report, caught>>

\* [3/10] standard input ends at a prompt: input() raises EOFError, which
\* main's `except Exception` reports as an unexpected error
InputEnds ==
    /\ pc = "filter_input"
    /\ caught' = "EOFError"
    /\ pc' = main_except("EOFError")
    /\ UNCHANGED <<raw_lines, parsed, region_filter, min_amount, max_amount, valid,
                   invalid_count, summary, api_products, product_mapping,
                   enriched, enriched_file, again, product_id, numeric_id,
                   analysis, report>>

\* [4/10]
ValidateAndFilter ==
    /\ pc = "validate"
    /\ LET r == validate_and_filter(parsed, region_filter, min_amount, max_amount)
       IN  /\ valid' = r.valid
           /\ invalid_count' = r.invalid_count
           /\ summary' = r.summary
    /\ parsed' = validate_and_filter_input(parsed)
    /\ pc' = "analyze"
    /\ UNCHANGED <<raw_lines, region_filter, min_amount, max_amount,
                   api_products, product_mapping, enriched, enriched_file, again,
                   product_id, numeric_id,
                   analysis, report, caught>>

\* the seven aggregator calls of step [5/10]
Aggregates(transactions) ==
    [computed |-> TRUE,
     total_revenue |-> calculate_total_revenue(transactions),
     region_stats |-> region_wise_sales(transactions),
     top_products |-> top_selling_products(transactions, 5),
     customers |-> customer_analysis(transactions),
     daily |-> daily_sales_trend(transactions),
     peak |-> find_peak_sales_day(transactions),
     low_products |-> low_performing_products(transactions, 10)]

\* [5/10] the seven aggregates are computed from valid.  The aggregators
\* read the records with .get and sort lists of their own (sorted(), or
\* .sort() on a list built in the call): valid is left as it is
Analyze ==
    /\ pc = "analyze"
    /\ analysis' = Aggregates(valid)
    /\ pc' = "fetch"
    /\ UNCHANGED <<raw_lines, parsed, region_filter, min_amount, max_amount, valid,
                   invalid_count, summary, api_products, product_mapping,
                   enriched, enriched_file, again, product_id, numeric_id,
                   report, caught>>

\* [6/10] the catalogue answers
FetchProducts ==
    /\ pc = "fetch"
    /\ \E products \in Payloads : api_products' = fetch_all_products(products)
    /\ pc' = "map"
    /\ UNCHANGED <<raw_lines, parsed, region_filter, min_amount, max_amount, valid,
                   invalid_count, summary, product_mapping, enriched,
                   enriched_file, again, product_id, numeric_id,
                   analysis, report, caught>>

\* fetch_all_products without its try/except: the exception reaches main
fetch_all_products_uncaught(exception) == [returned |-> <<>>, raised |-> exception]

\* fetch_all_products when the request raises: `except Exception` prints
\* the failure and returns []
fetch_all_products_failed(exception) == [returned |-> <<>>, raised |-> "none"]

\* [6/10] the request fails (no connection, a timeout, an HTTP error status)
FetchFails ==
    /\ pc = "fetch"
    /\ LET r == fetch_all_products_failed("ConnectionError")
       IN  /\ api_products' = r.returned
           /\ caught' = r.raised
           /\ pc' = IF r.raised = "none" THEN "map" ELSE main_except(r.raised)
    /\ UNCHANGED <<raw_lines, parsed, region_filter, min_amount, max_amount, valid,
                   invalid_count, summary, product_mapping, enriched,
                   enriched_file, again, product_id, numeric_id,
                   analysis, report>>

CreateProductMapping ==
    /\ pc = "map"
    /\ product_mapping' = create_product_mapping(api_products)
    /\ pc' = "enrich"
    /\ UNCHANGED <<raw_lines, parsed, region_filter, min_amount, max_amount, valid,
                   invalid_count, summary, api_products, enriched, enriched_file,
                   again, product_id, numeric_id,
                   analysis, report, caught>>

\* [7/10] enrich_sales_data, which also writes the enriched file
EnrichSalesData ==
    /\ pc = "enrich"
    /\ enriched' = enrich_sales_data(valid, product_mapping)
    /\ enriched_file' = save_enriched_data(enrich_sales_data(valid, product_mapping))
    /\ valid' = enrich_sales_data_input(valid, product_mapping)
    /\ pc' = "report"
    /\ UNCHANGED <<raw_lines, parsed, region_filter, min_amount, max_amount,
                   invalid_count, summary, api_products, product_mapping, again,
                   product_id, numeric_id,
                   analysis, report, caught>>

\* [9/10] generate_sales_report(valid, enriched); the renderer reads the
\* two lists with .get and sorts rows of its own
GenerateReport ==
    /\ pc = "report"
    /\ report' = generate_sales_report(valid, enriched)
    /\ pc' = "done"
    /\ UNCHANGED <<raw_lines, parsed, region_filter, min_amount, max_amount, valid,
                   invalid_count, summary, api_products, product_mapping,
                   enriched, enriched_file, again, product_id, numeric_id,
                   analysis, caught>>

Next ==
    \/ ReadSalesData
    \/ FileNotFound
    \/ ReadFails
    \/ ParseTransactions
    \/ GetFilterInput
    \/ InputEnds
    \/ ValidateAndFilter
    \/ Analyze
    \/ FetchProducts
    \/ FetchFails
    \/ CreateProductMapping
    \/ EnrichSalesData
    \/ GenerateReport

Spec == Init /\ [][Next]_vars

(***************************************************************************)
(* Direct calls.  The functions of the pipeline are also called on their   *)
(* own, with arguments main never builds: each specification below starts  *)
(* main's state at one call, with the call's arguments drawn from a set.   *)
(***************************************************************************)
\* parse_transactions(raw_lines) on any lines, blank and padded ones included
InitParse ==
    /\ raw_lines \in SeqsUpTo(SampleLines, MaxLines)
    /\ pc = "parse"
    /\ parsed = <<>>
    /\ region_filter = PyNone
    /\ min_amount = PyNone
    /\ max_amount = PyNone
    /\ valid = <<>>
    /\ invalid_count = 0
    /\ summary = NoSummary
    /\ api_products = <<>>
    /\ product_mapping = <<>>
    /\ enriched = <<>>
    /\ enriched_file = <<>>
    /\ again = NoResult
    /\ product_id = PyNone
    /\ numeric_id = PyNone
    /\ analysis = NoAnalysis
    /\ report = NoReport
    /\ caught = "none"

SpecParse == InitParse /\ [][ParseTransactions]_vars

\* the records parse_transactions makes of the sample lines
ParsedSamples == {ParseLine(l).rec : l \in {x \in SampleLines : ParseLine(x).keep}}

Laptop == ParseLine(LineLaptop).rec

\* records a caller other than main may pass
NoRegionRecord == [f \in DOMAIN Laptop \ {"Region"} |-> Laptop[f]]
TextNumbersRecord ==
    [Laptop EXCEPT !["Quantity"] = PyStr(<<" ", "3">>),
                   !["UnitPrice"] = PyStr(<<"2", ".", "5">>),
                   !["Region"] = PyStr(<<"s">>)]
PaddedRecord ==
    [Laptop EXCEPT !["TransactionID"] = PyStr(<<" ", "T", "1">>),
                   !["Region"] = PyStr(<<" ", "S", " ">>)]
FractionRecord ==
    [Laptop EXCEPT !["Quantity"] = PyFloat(25, 1), !["UnitPrice"] = PyInt(5)]
SmallFractionRecord == [Laptop EXCEPT !["Quantity"] = PyFloat(5, 1)]
BadTextRecord == [Laptop EXCEPT !["Quantity"] = PyStr(<<"x">>)]
NoneDateRecord == [Laptop EXCEPT !["Date"] = PyNone, !["UnitPrice"] = PyNone]

RecordSamples ==
    ParsedSamples \cup
    {NoRegionRecord, TextNumbersRecord, PaddedRecord, FractionRecord,
     SmallFractionRecord, BadTextRecord, NoneDateRecord}

\* non-blank region arguments
RegionArguments == {PyStr(<<"n">>), PyStr(<<" ", "S">>)}

\* validate_and_filter(records, region=r), then the same call on its output
InitValidate ==
    /\ parsed \in SeqsUpTo(RecordSamples, MaxRecords)
    /\ region_filter \in RegionArguments
    /\ pc = "validate"
    /\ raw_lines = <<>>
    /\ min_amount = PyNone
    /\ max_amount = PyNone
    /\ valid = <<>>
    /\ invalid_count = 0
    /\ summary = NoSummary
    /\ api_products = <<>>
    /\ product_mapping = <<>>
    /\ enriched = <<>>
    /\ enriched_file = <<>>
    /\ again = NoResult
    /\ product_id = PyNone
    /\ numeric_id = PyNone
    /\ analysis = NoAnalysis
    /\ report = NoReport
    /\ caught = "none"

ValidateAgain ==
    /\ pc = "analyze"
    /\ again' = validate_and_filter(valid, region_filter, min_amount, max_amount)
    /\ valid' = validate_and_filter_input(valid)
    /\ pc' = "validated_again"
    /\ UNCHANGED <<raw_lines, parsed, region_filter, min_amount, max_amount,
                   invalid_count, summary, api_products, product_mapping,
                   enriched, enriched_file, product_id, numeric_id,
                   analysis, report, caught>>

NextValidate == ValidateAndFilter \/ ValidateAgain

SpecValidate == InitValidate /\ [][NextValidate]_vars

\* the valid transaction T001 of the sales file
T001 == validate_and_filter(<<Laptop>>, PyNone, PyNone, PyNone).valid[1]

ProductIdSamples ==
    {PyStr(<<"P", "5">>), PyStr(<<"p", "5", "0">>), PyStr(<<"P", "1", "5", "0">>),
     PyStr(<<"P", "1", "0", "0">>), PyStr(<<"P", "0">>), PyStr(<<"P", "-", "1">>),
     PyStr(<<" ", "P", " ", "7">>), PyStr(<<"x">>), PyStr(<<>>), PyNone}

\* transactions: T001, T001 with another ProductID, T001 without one
TxSamples ==
    {T001, [f \in DOMAIN T001 \ {"ProductID"} |-> T001[f]]}
    \cup {[T001 EXCEPT !["ProductID"] = p] : p \in ProductIdSamples}

\* product lookups, as create_product_mapping builds them
Lookups ==
    {create_product_mapping(ps) :
        ps \in {<<>>, <<Electronics>>, <<Phone, Mouse, NoId>>,
                <<[Electronics EXCEPT !["id"] = PyInt(1)]>>,
                <<[Phone EXCEPT !["id"] = PyInt(100)], [Mouse EXCEPT !["id"] = PyInt(7)],
                  [Phone EXCEPT !["id"] = PyStr(<<"x">>)]>>}}

\* enrich_sales_data(transactions, product_mapping)
InitEnrich ==
    /\ valid \in SeqsUpTo(TxSamples, MaxTx)
    /\ product_mapping \in Lookups
    /\ pc = "enrich"
    /\ raw_lines = <<>>
    /\ parsed = <<>>
    /\ region_filter = PyNone
    /\ min_amount = PyNone
    /\ max_amount = PyNone
    /\ invalid_count = 0
    /\ summary = NoSummary
    /\ api_products = <<>>
    /\ enriched = <<>>
    /\ enriched_file = <<>>
    /\ again = NoResult
    /\ product_id = PyNone
    /\ numeric_id = PyNone
    /\ analysis = NoAnalysis
    /\ report = NoReport
    /\ caught = "none"

SpecEnrich == InitEnrich /\ [][EnrichSalesData]_vars

\* product ids: an optional prefix, sign, digits and suffix
IdPrefixes == {<<>>, <<"P">>, <<"p">>, <<"P", "P">>, <<"P", " ">>, <<" ", "P">>, <<"x">>}
IdSigns == {<<>>, <<"-">>, <<"+">>}
IdDigits == SeqsUpTo({"0", "1", "5"}, MaxDigits)
IdSuffixes == {<<>>, <<" ">>, <<"a">>}

ProductIdArguments ==
    {PyNone} \cup
    {PyStr(a \o b \o c \o d) :
        a \in IdPrefixes, b \in IdSigns, c \in IdDigits, d \in IdSuffixes}

\* _extract_numeric_product_id(product_id)
InitKey ==
    /\ product_id \in ProductIdArguments
    /\ pc = "key"
    /\ raw_lines = <<>>
    /\ parsed = <<>>
    /\ region_filter = PyNone
    /\ min_amount = PyNone
    /\ max_amount = PyNone
    /\ valid = <<>>
    /\ invalid_count = 0
    /\ summary = NoSummary
    /\ api_products = <<>>
    /\ product_mapping = <<>>
    /\ enriched = <<>>
    /\ enriched_file = <<>>
    /\ again = NoResult
    /\ numeric_id = PyNone
    /\ analysis = NoAnalysis
    /\ report = NoReport
    /\ caught = "none"

ExtractNumericProductId ==
    /\ pc = "key"
    /\ numeric_id' = extract_numeric_product_id(product_id)
    /\ pc' = "key_done"
    /\ UNCHANGED <<raw_lines, parsed, region_filter, min_amount, max_amount, valid,
                   invalid_count, summary, api_products, product_mapping,
                   enriched, enriched_file, again, product_id, analysis, report, caught>>

SpecKey == InitKey /\ [][ExtractNumericProductId]_vars

(***************************************************************************)
(* The aggregators and the report renderer called on their own, on lists   *)
(* of records that validate_and_filter returns.                            *)
(***************************************************************************)
\* longest list of validated transactions handed to the aggregators
MaxSales == 3

\* T1|02|P1|Lap|2|500|C1|N   (amount 1000.0 on day 02)
SaleNorth ==
    <<"T", "1", "|", "0", "2", "|", "P", "1", "|", "L", "a", "p", "|", "2", "|", "5", "0", "0", "|", "C", "1", "|", "N">>
\* T2|01|P2|Mo|10|100|C2|S   (amount 1000.0 on day 01, quantity 10)
SaleSouth ==
    <<"T", "2", "|", "0", "1", "|", "P", "2", "|", "M", "o", "|", "1", "0", "|", "1", "0", "0", "|", "C", "2", "|", "S">>
\* T3|02|P2|Mo|9|0.5|C1|n   (amount 4.5, quantity 9, region n)
SaleSmall ==
    <<"T", "3", "|", "0", "2", "|", "P", "2", "|", "M", "o", "|", "9", "|", "0", ".", "5", "|", "C", "1", "|", "n">>
\* T4|01|P3|Kb|1|2000|C2|N   (amount 2000.0)
SaleLarge ==
    <<"T", "4", "|", "0", "1", "|", "P", "3", "|", "K", "b", "|", "1", "|", "2", "0", "0", "0", "|", "C", "2", "|", "N">>
\* T5|03|P3|Kb|3|nan|C3|S   (UnitPrice NaN, which validation lets through)
SaleNaN ==
    <<"T", "5", "|", "0", "3", "|", "P", "3", "|", "K", "b", "|", "3", "|", "n", "a", "n", "|", "C", "3", "|", "S">>
\* T6|03|P1|Lap|4|250|C3|E   (amount 1000.0, region E)
SaleEast ==
    <<"T", "6", "|", "0", "3", "|", "P", "1", "|", "L", "a", "p", "|", "4", "|", "2", "5", "0", "|", "C", "3", "|", "E">>

SaleLines == {SaleNorth, SaleSouth, SaleSmall, SaleLarge, SaleNaN, SaleEast}

\* the records validate_and_filter returns for the lines above
ValidatedSamples ==
    {validate_and_filter(parse_transactions(<<line>>), PyNone, PyNone, PyNone).valid[1] :
        line \in SaleLines}

\* a lookup that matches P1 and P3
SaleLookup == create_product_mapping(fetch_all_products(<<Phone, Electronics>>))

InitAnalyze ==
    /\ valid \in SeqsUpTo(ValidatedSamples, MaxSales)
    /\ enriched = enrich_sales_data(valid, SaleLookup)
    /\ pc = "analyze"
    /\ raw_lines = <<>>
    /\ parsed = <<>>
    /\ region_filter = PyNone
    /\ min_amount = PyNone
    /\ max_amount = PyNone
    /\ invalid_count = 0
    /\ summary = NoSummary
    /\ api_products = <<>>
    /\ product_mapping = SaleLookup
    /\ enriched_file = <<>>
    /\ again = NoResult
    /\ product_id = PyNone
    /\ numeric_id = PyNone
    /\ analysis = NoAnalysis
    /\ report = NoReport
    /\ caught = "none"

\* generate_sales_report(valid, enriched) right after the aggregators
GenerateSalesReport ==
    /\ pc = "fetch"
    /\ report' = generate_sales_report(valid, enriched)
    /\ pc' = "reported"
    /\ UNCHANGED <<raw_lines, parsed, region_filter, min_amount, max_amount, valid,
                   invalid_count, summary, api_products, product_mapping,
                   enriched, enriched_file, again, product_id, numeric_id,
                   analysis, caught>>

NextAnalyze == Analyze \/ GenerateSalesReport

SpecAnalyze == InitAnalyze /\ [][NextAnalyze]_vars

(***************************************************************************)
(* main from [6/10] on, for the lists of validated records above: the      *)
(* catalogue fetch and everything after it.  main is sequential and each   *)
(* of its steps returns, so a run does not stop while a step is left: weak *)
(* fairness of each step.  A step of main is enabled exactly while pc is   *)
(* at it; for the steps after the fetch, whose results are long to         *)
(* compute, weak fairness is written with ENABLED spelled out as the value *)
(* of pc.                                                                  *)
(***************************************************************************)
InitFetch ==
    /\ valid \in SeqsUpTo(ValidatedSamples, MaxSales)
    /\ pc = "fetch"
    /\ raw_lines = <<>>
    /\ parsed = <<>>
    /\ region_filter = PyNone
    /\ min_amount = PyNone
    /\ max_amount = PyNone
    /\ invalid_count = 0
    /\ summary = NoSummary
    /\ api_products = <<>>
    /\ product_mapping = <<>>
    /\ enriched = <<>>
    /\ enriched_file = <<>>
    /\ again = NoResult
    /\ product_id = PyNone
    /\ numeric_id = PyNone
    /\ analysis = NoAnalysis
    /\ report = NoReport
    /\ caught = "none"

NextFetch ==
    \/ FetchProducts
    \/ FetchFails
    \/ CreateProductMapping
    \/ EnrichSalesData
    \/ GenerateReport

\* weak fairness of the step taken at pc = at
StepReturns(at) == []<>(pc # at) \/ []<><<NextFetch>>_vars

SpecFetch ==
    /\ InitFetch /\ [][NextFetch]_vars
    /\ WF_vars(FetchProducts \/ FetchFails)
    /\ StepReturns("map") /\ StepReturns("enrich") /\ StepReturns("report")

(***************************************************************************)
(* Properties.                                                             *)
(***************************************************************************)
\* main has the result of validate_and_filter
Validated == pc \in {"analyze", "fetch", "map", "enrich", "report", "done"}

NoFilters ==
    region_filter.t = "none" /\ min_amount.t = "none" /\ max_amount.t = "none"

\* the records that passed the validation loop, before the optional filters
StageA == ValidateLoop(parsed, 1, 0, <<>>).valid

Amount(t) == NumMul(t["Quantity"], t["UnitPrice"])

\* C1: with no region, min_amount or max_amount, every input record is either
\* returned as valid or counted as invalid, exactly once:
\* len(valid) + invalid_count = len(parsed).
C1_Conservation ==
    (Validated /\ NoFilters) => Len(valid) + invalid_count = Len(parsed)

C1_Witness ==
    /\ pc = "analyze"
    /\ NoFilters
    /\ Len(parsed) = 2
    /\ Len(valid) = 1
    /\ invalid_count = 1

\* the amount lies below the given minimum or above the given maximum
OutOfRange(t) ==
    \/ (min_amount.t # "none" /\ NumLt(Amount(t), min_amount))
    \/ (max_amount.t # "none" /\ NumGt(Amount(t), max_amount))

\* the region argument is applied and the record's region differs from it,
\* compared trimmed and without case
WrongRegion(t) ==
    /\ region_filter.t # "none"
    /\ Strip(region_filter.s) # <<>>
    /\ Lower(Strip(t["Region"].s)) # Lower(Strip(region_filter.s))

\* C2: the summary is exact and its counts exclude each other: total_input is
\* the sum of invalid, filtered_by_region, filtered_by_amount and final_count;
\* filtered_by_region counts the validated records of another region;
\* filtered_by_amount counts the records of the right region whose amount is
\* out of range; a record failing both filters counts for the region only.
C2_SummaryExact ==
    Validated =>
        LET wrong == {i \in 1..Len(StageA) : WrongRegion(StageA[i])}
            out == {i \in 1..Len(StageA) : i \notin wrong /\ OutOfRange(StageA[i])}
        IN  /\ summary.total_input = Len(parsed)
            /\ summary.invalid = invalid_count
            /\ summary.final_count = Len(valid)
            /\ summary.total_input =
                  summary.invalid + summary.filtered_by_region
                  + summary.filtered_by_amount + summary.final_count
            /\ summary.filtered_by_region = Cardinality(wrong)
            /\ summary.filtered_by_amount = Cardinality(out)

\* a record fails both filters and is counted for the region only, while a
\* record of the right region, with the amount on the bound, is kept
C2_Witness ==
    /\ pc = "analyze"
    /\ \E i \in 1..Len(StageA) : WrongRegion(StageA[i]) /\ OutOfRange(StageA[i])
    /\ max_amount.t = "float"
    /\ summary.total_input = 2
    /\ summary.filtered_by_region = 1
    /\ summary.filtered_by_amount = 0
    /\ summary.final_count = 1

\* a record with the eight fields present and not blank, a positive quantity
\* and unit price, and the three prefixes
WellFormed(t) ==
    /\ \A k \in 1..Len(required_fields) :
          /\ required_fields[k] \in DOMAIN t
          /\ t[required_fields[k]].t # "none"
          /\ t[required_fields[k]].t = "str" => Strip(t[required_fields[k]].s) # <<>>
    /\ NumGt(t["Quantity"], PyInt(0))
    /\ NumGt(t["UnitPrice"], PyInt(0))
    /\ StartsWith(t["TransactionID"].s, "T")
    /\ StartsWith(t["ProductID"].s, "P")
    /\ StartsWith(t["CustomerID"].s, "C")

\* C3: every record validate_and_filter returns is well formed, and every
\* input record that is not well formed is dropped and counted as invalid once.
C3_OnlyWellFormed ==
    Validated =>
        /\ \A i \in 1..Len(valid) : WellFormed(valid[i])
        /\ invalid_count = Cardinality({i \in 1..Len(parsed) : ~WellFormed(parsed[i])})

\* the same, for the records whose unit price is a number
C3_ExceptNaN ==
    Validated =>
        /\ \A i \in 1..Len(valid) :
              valid[i]["UnitPrice"].t # "nan" => WellFormed(valid[i])
        /\ invalid_count =
              Cardinality({i \in 1..Len(parsed) :
                              parsed[i]["UnitPrice"].t # "nan" /\ ~WellFormed(parsed[i])})

\* C4: the region filter is idempotent: validate_and_filter with region r on
\* the output of validate_and_filter with region r returns the same records in
\* the same order, with invalid_count 0 and filtered_by_region 0.
C4_RegionIdempotent ==
    pc = "validated_again" =>
        /\ again.valid = valid
        /\ again.invalid_count = 0
        /\ again.summary.filtered_by_region = 0

C4_Witness ==
    /\ pc = "validated_again"
    /\ Len(parsed) = 2
    /\ Len(valid) = 1
    /\ summary.filtered_by_region = 1
    /\ again.summary.final_count = 1

\* the amount is at least the given minimum and at most the given maximum
WithinBounds(t) ==
    /\ min_amount.t # "none" => NumGe(Amount(t), min_amount)
    /\ max_amount.t # "none" => NumLe(Amount(t), max_amount)

\* C5: a record that passed validation and the region filter is kept by the
\* amount filter iff its amount is >= min_amount (when given) and
\* <= max_amount (when given); with neither given nothing is removed and
\* filtered_by_amount is 0.
C5_AmountRange ==
    Validated =>
        LET after_region == RegionFilter(StageA, region_filter)
        IN  /\ valid = SelectSeq(after_region, WithinBounds)
            /\ (min_amount.t = "none" /\ max_amount.t = "none") =>
                  (valid = after_region /\ summary.filtered_by_amount = 0)

\* the same, for the records whose amount is a number, when no bound is NaN
C5_ExceptNaN ==
    (Validated /\ min_amount.t # "nan" /\ max_amount.t # "nan") =>
        LET after_region == RegionFilter(StageA, region_filter)
            Number(t) == Amount(t).t # "nan"
        IN  /\ SelectSeq(valid, Number) =
                  SelectSeq(SelectSeq(after_region, Number), WithinBounds)
            /\ (min_amount.t = "none" /\ max_amount.t = "none") =>
                  (valid = after_region /\ summary.filtered_by_amount = 0)

\* splitting the line on "|" gives eight fields, of which the fifth and sixth
\* without their commas convert to an integer and to a float
Convertible(line) ==
    LET parts == Split(line)
    IN  /\ Len(parts) = 8
        /\ StrToInt(RemoveCommas(parts[5])).ok
        /\ StrToFloat(RemoveCommas(parts[6])).ok

\* the index in raw_lines of the j-th convertible line
NthConvertible(j) ==
    CHOOSE i \in 1..Len(raw_lines) :
        /\ Convertible(raw_lines[i])
        /\ Cardinality({k \in 1..i : Convertible(raw_lines[k])}) = j

\* C6: parse_transactions keeps a line iff it splits into eight fields whose
\* quantity and unit price convert; the records come in the order of their
\* lines, each with the trimmed fields of its line.
C6_ParseExact ==
    pc = "filter_input" =>
        /\ Len(parsed) = Cardinality({i \in 1..Len(raw_lines) : Convertible(raw_lines[i])})
        /\ \A j \in 1..Len(parsed) :
              LET parts == Split(raw_lines[NthConvertible(j)])
              IN  /\ parsed[j]["TransactionID"].s = Strip(parts[1])
                  /\ parsed[j]["Date"].s = Strip(parts[2])
                  /\ parsed[j]["ProductID"].s = Strip(parts[3])
                  /\ parsed[j]["ProductName"].s = RemoveCommas(Strip(parts[4]))
                  /\ parsed[j]["Quantity"] = StrToInt(RemoveCommas(parts[5])).val
                  /\ parsed[j]["UnitPrice"] = StrToFloat(RemoveCommas(parts[6])).val
                  /\ parsed[j]["CustomerID"].s = Strip(parts[7])
                  /\ parsed[j]["Region"].s = Strip(parts[8])

\* a dropped line between two kept ones
C6_Witness ==
    /\ pc = "filter_input"
    /\ Len(raw_lines) = 2
    /\ Len(parsed) = 1
    /\ ~Convertible(raw_lines[1])
    /\ parsed[1]["Quantity"] = PyInt(10)

API_FIELDS == {"API_Category", "API_Brand", "API_Rating", "API_Match"}

\* C7: enrich_sales_data returns one record per transaction, in order: the
\* i-th has the fields of the i-th transaction unchanged and the four API
\* fields; with an empty lookup every API_Match is False.
C7_EnrichTotal ==
    pc = "report" =>
        /\ Len(enriched) = Len(valid)
        /\ \A i \in 1..Len(valid) :
              /\ DOMAIN enriched[i] = DOMAIN valid[i] \cup API_FIELDS
              /\ \A f \in DOMAIN valid[i] \ API_FIELDS : enriched[i][f] = valid[i][f]
              /\ DOMAIN product_mapping = {} => enriched[i]["API_Match"] = PyBool(FALSE)

C7_Witness ==
    /\ pc = "report"
    /\ Len(valid) = 2
    /\ enriched[1]["API_Match"] = PyBool(FALSE)
    /\ enriched[2]["API_Match"] = PyBool(TRUE)
    /\ enriched[2]["TransactionID"] = valid[2]["TransactionID"]

\* the part of the product id after one leading P or p
AfterPrefix(s) == IF s # <<>> /\ s[1] \in {"P", "p"} THEN Tail(s) ELSE s

\* C8: when the part of the product id after one leading P or p is an integer
\* k > 0 the key is the number in 1..100 that differs from k by a multiple of
\* 100; when k <= 0, or the part is no integer, or the id is empty or absent,
\* there is no key.
C8_FoldedKey ==
    pc = "key_done" =>
        LET k == IF product_id.t = "none" THEN [ok |-> FALSE, val |-> PyNone]
                 ELSE StrToInt(AfterPrefix(Strip(product_id.s)))
        IN  IF k.ok /\ k.val.m > 0
            THEN /\ numeric_id.t = "int"
                 /\ numeric_id.m \in 1..100
                 /\ (k.val.m - numeric_id.m) % 100 = 0
            ELSE numeric_id = PyNone

\* the key of P150 is that of P50
C8_Witness ==
    /\ pc = "key_done"
    /\ product_id = PyStr(<<"P", "1", "5", "0">>)
    /\ numeric_id = PyInt(50)

\* C9: API_Match is True iff a key is derived from ProductID and the lookup
\* has it; then the three API fields are the entry's category, brand and
\* rating; otherwise they are None.
C9_MatchIffKeyFound ==
    pc = "report" =>
        \A i \in 1..Len(valid) :
            LET key == extract_numeric_product_id(DictGet(valid[i], "ProductID"))
                found == key.t # "none" /\ key.m \in DOMAIN product_mapping
            IN  /\ enriched[i]["API_Match"] = PyBool(found)
                /\ found =>
                      /\ enriched[i]["API_Category"] = product_mapping[key.m].category
                      /\ enriched[i]["API_Brand"] = product_mapping[key.m].brand
                      /\ enriched[i]["API_Rating"] = product_mapping[key.m].rating
                /\ ~found =>
                      /\ enriched[i]["API_Category"] = PyNone
                      /\ enriched[i]["API_Brand"] = PyNone
                      /\ enriched[i]["API_Rating"] = PyNone

\* P150 matches the entry of key 50, and a transaction without key matches none
C9_Witness ==
    /\ pc = "report"
    /\ Len(valid) = 2
    /\ DictGet(valid[1], "ProductID") = PyStr(<<"P", "1", "5", "0">>)
    /\ enriched[1]["API_Match"] = PyBool(TRUE)
    /\ enriched[1]["API_Category"] = Mouse.category
    /\ "ProductID" \notin DOMAIN valid[2]
    /\ enriched[2]["API_Match"] = PyBool(FALSE)

\* the lookup with the single entry given, under key k
LookupOf(k) ==
    k :> [title |-> Electronics.title, category |-> Electronics.category,
          brand |-> Electronics.brand, rating |-> Electronics.rating]

RECURSIVE SumOfAmounts(_)
SumOfAmounts(ts) ==
    IF ts = <<>> THEN PyFloat(0, 0)
    ELSE NumAdd(SumOfAmounts(SubSeq(ts, 1, Len(ts) - 1)), Amount(ts[Len(ts)]))

\* a number with at most two decimals, in hundredths
Hundredths(p) == p.m * Pow10(2 - p.e)

Abs(n) == IF n < 0 THEN -n ELSE n

RECURSIVE SumOfPercentages(_)
SumOfPercentages(stats) ==
    IF stats = <<>> THEN 0
    ELSE SumOfPercentages(Tail(stats)) + Hundredths(Head(stats).percentage)

\* p is the share sales / total in percent, rounded to two decimals
IsRoundedShare(p, sales, total) ==
    /\ p.t = "float" /\ p.e <= 2
    /\ 2 * Abs(Hundredths(p) * total.m * Pow10(sales.e)
               - sales.m * 10000 * Pow10(total.e))
          <= total.m * Pow10(sales.e)

ProductNames(ts) == {ts[i]["ProductName"] : i \in 1..Len(ts)}

RECURSIVE QuantityOf(_, _)
QuantityOf(ts, name) ==
    IF ts = <<>> THEN 0
    ELSE QuantityOf(Tail(ts), name)
         + (IF Head(ts)["ProductName"] = name THEN Head(ts)["Quantity"].m ELSE 0)

\* the product names of a list of (ProductName, TotalQuantity, TotalRevenue)
NamesIn(tuples) == {tuples[j][1] : j \in 1..Len(tuples)}

\* C12 as stated: with threshold 10 and n covering all groups, no product
\* name is in both top_selling_products and low_performing_products, and
\* every product group is in exactly one of them
C12_AsStated ==
    (analysis.computed /\ Cardinality(ProductNames(valid)) <= 5) =>
        /\ NamesIn(analysis.top_products) \cap NamesIn(analysis.low_products) = {}
        /\ NamesIn(analysis.top_products) \cup NamesIn(analysis.low_products)
             = ProductNames(valid)

\* C12 amended: low_performing_products holds exactly the product groups with
\* total_quantity < 10 and top_selling_products, with n covering all groups,
\* holds every product group, each once; so a product is in both results
\* exactly when its total_quantity < 10
C12_Amended ==
    (analysis.computed /\ Cardinality(ProductNames(valid)) <= 5) =>
        /\ NamesIn(analysis.low_products)
             = {name \in ProductNames(valid) : QuantityOf(valid, name) < 10}
        /\ NamesIn(analysis.top_products) = ProductNames(valid)
        /\ Len(analysis.top_products) = Cardinality(ProductNames(valid))
        /\ Len(analysis.low_products) = Cardinality(NamesIn(analysis.low_products))
        /\ \A j \in 1..Len(analysis.top_products) :
              analysis.top_products[j][2]
                = PyInt(QuantityOf(valid, analysis.top_products[j][1]))
        /\ \A j \in 1..Len(analysis.low_products) :
              analysis.low_products[j][2]
                = PyInt(QuantityOf(valid, analysis.low_products[j][1]))

\* one product sold 10 times and one sold fewer: the second is in both results
C12_Witness ==
    /\ analysis.computed
    /\ \E name \in ProductNames(valid) : QuantityOf(valid, name) = 10
    /\ Len(analysis.low_products) = 1
    /\ Len(analysis.top_products) = 2
    /\ analysis.low_products[1][1] \in NamesIn(analysis.top_products)

\* the dates of a list in first-seen order, and the records of one date
FirstSeenDates(ts) == Distinct([i \in 1..Len(ts) |-> ts[i]["Date"]])

OnDate(ts, date) == SelectSeq(ts, LAMBDA t : t["Date"] = date)

NoNaN(ts) == \A i \in 1..Len(ts) : Amount(ts[i]).t # "nan"

\* the first date, in first-seen order, whose revenue no other date exceeds
FirstPeakDate(ts) ==
    LET dates == FirstSeenDates(ts)
        best == {j \in 1..Len(dates) :
                    \A k \in 1..Len(dates) :
                        ~NumLt(SumOfAmounts(OnDate(ts, dates[j])),
                               SumOfAmounts(OnDate(ts, dates[k])))}
    IN  dates[SetMin(best)]

\* C13: for a non-empty validated list find_peak_sales_day returns the date
\* of maximal summed revenue (the first such date in first-seen order), that
\* date's revenue and the number of records on that date; for an empty list
\* it returns (None, 0.0, 0)
C13_PeakDay ==
    analysis.computed =>
        IF valid = <<>> THEN analysis.peak = <<PyNone, PyFloat(0, 0), 0>>
        ELSE NoNaN(valid) =>
               LET date == FirstPeakDate(valid)
               IN  analysis.peak = <<date, SumOfAmounts(OnDate(valid, date)),
                                     Len(OnDate(valid, date))>>

\* C13 without the count: the date and the revenue are as claimed, and the
\* returned transaction_count is 0 whatever the list
C13_ExceptCount ==
    analysis.computed =>
        IF valid = <<>> THEN analysis.peak = <<PyNone, PyFloat(0, 0), 0>>
        ELSE /\ analysis.peak[3] = 0
             /\ NoNaN(valid) =>
                   LET date == FirstPeakDate(valid)
                   IN  /\ analysis.peak[1] = date
                       /\ analysis.peak[2] = SumOfAmounts(OnDate(valid, date))

\* main has the result of parse_transactions
Parsed == pc \notin {"read", "parse", "file_not_found"}

\* the lists of lines read_sales_data can hand to the parser
LineLists == {read_sales_data(content) : content \in FileContents}

\* the number of lines the parser dropped is a function of what it returns:
\* any other input with the same returned list lost as many lines
ParserDropsReadable ==
    Parsed =>
        \A other \in LineLists :
            parse_transactions(other) = parsed
                => Len(other) - Len(parse_transactions(other))
                     = Len(raw_lines) - Len(parsed)

\* the records dropped by validation, by the region filter and by the amount
\* filter are the counts validate_and_filter returns
ValidatorDropsCounted ==
    Validated =>
        LET wrong == {i \in 1..Len(StageA) : WrongRegion(StageA[i])}
        IN  /\ invalid_count = Len(parsed) - Len(StageA)
            /\ summary.invalid = invalid_count
            /\ summary.filtered_by_region = Cardinality(wrong)
            /\ summary.filtered_by_amount
                 = Len(StageA) - Cardinality(wrong) - Len(valid)

\* C14: every line or record dropped by the parser, by validation, by the
\* region filter or by the amount filter is reflected in a value the stage
\* returns, so the number dropped at each stage can be read from the
\* returned values alone
C14_DropsObservable == ParserDropsReadable /\ ValidatorDropsCounted

\* C14 for the validator alone
C14_ExceptParser == ValidatorDropsCounted

\* main has returned after an exception
Stopped == pc \in {"file_not_found", "unexpected_error"}

\* nothing after the read step has run
NothingRan ==
    /\ raw_lines = <<>> /\ parsed = <<>>
    /\ valid = <<>> /\ summary = NoSummary
    /\ ~analysis.computed
    /\ api_products = <<>> /\ product_mapping = <<>>
    /\ enriched = <<>> /\ enriched_file = <<>>
    /\ ~report.written

\* C15: when reading the sales file raises FileNotFoundError, main reports it
\* on the FileNotFoundError path, not on the unexpected-error path, and runs
\* none of the later steps, so no report is written; any other exception ends
\* on the unexpected-error path; after either, main does nothing more
C15_MissingFileStops ==
    /\ [](caught = "FileNotFoundError" => pc = "file_not_found" /\ NothingRan)
    /\ [](caught \notin {"none", "FileNotFoundError"} =>
             pc = "unexpected_error" /\ ~report.written)
    /\ [](Stopped <=> caught # "none")
    /\ [][Stopped => UNCHANGED vars]_vars

\* the sales file is missing and main has returned
C15_Witness == pc = "file_not_found" /\ caught = "FileNotFoundError" /\ NothingRan

\* the catalogue fetch has failed: the payloads of the model are never empty
FetchFailed == pc \in {"map", "enrich", "report", "done"} /\ api_products = <<>>

\* C16: a failed catalogue fetch is not a pipeline error: fetch_all_products
\* returns an empty list, create_product_mapping an empty lookup,
\* enrich_sales_data marks every valid record API_Match = False with the
\* three API fields None, and main goes on to write the report, whose
\* enrichment summary shows total = number of valid records, 0 matched and
\* success rate 0
C16_FetchFailureDegrades ==
    /\ [](caught \in {"none", "FileNotFoundError", "IsADirectoryError", "EOFError"})
    /\ [](pc \in {"map", "enrich", "report", "done"} => caught = "none")
    /\ []((FetchFailed /\ pc \in {"enrich", "report", "done"}) =>
             product_mapping = <<>>)
    /\ []((FetchFailed /\ pc \in {"report", "done"}) =>
             /\ Len(enriched) = Len(valid)
             /\ \A i \in 1..Len(enriched) :
                   /\ enriched[i]["API_Match"] = PyBool(FALSE)
                   /\ enriched[i]["API_Category"] = PyNone
                   /\ enriched[i]["API_Brand"] = PyNone
                   /\ enriched[i]["API_Rating"] = PyNone)
    /\ []((FetchFailed /\ pc = "done") =>
             /\ report.written
             /\ report.api.total = Len(valid)
             /\ report.api.matched = 0
             /\ report.api.rate = PyFloat(0, 0))
    /\ (pc = "fetch") ~> (pc = "done" /\ report.written)

\* the fetch failed and the report is written, for a non-empty valid list
C16_Witness ==
    /\ pc = "done" /\ api_products = <<>>
    /\ valid # <<>>
    /\ report.written
    /\ report.api.total = Len(valid) /\ report.api.matched = 0

\* the aggregators and the renderer have both run on the same list
Rendered == analysis.computed /\ report.written

\* C17: for a validated list the aggregates the renderer recomputes equal
\* the aggregators' results: _region_table has the regions, total sales,
\* transaction counts and order of region_wise_sales; _top_products(n=5)
\* equals top_selling_products(n=5); _top_customers(n=5) has the first five
\* customers, total_spent and purchase_count of customer_analysis;
\* _daily_trend has the dates, revenue, transaction counts, unique-customer
\* counts and order of daily_sales_trend; _low_performers(threshold=10)
\* equals low_performing_products(threshold=10)
C17_RendererAgrees ==
    Rendered =>
        LET first_customers == Take(analysis.customers, 5)
        IN  /\ [j \in 1..Len(report.region_rows) |->
                   <<report.region_rows[j][1], report.region_rows[j][2],
                     report.region_rows[j][4]>>]
                 = [j \in 1..Len(analysis.region_stats) |->
                      <<analysis.region_stats[j].key,
                        analysis.region_stats[j].total_sales,
                        analysis.region_stats[j].transaction_count>>]
            /\ report.top_products = analysis.top_products
            /\ report.top_customers
                 = [j \in 1..Len(first_customers) |->
                      <<first_customers[j].key, first_customers[j].total_spent,
                        first_customers[j].purchase_count>>]
            /\ report.daily_rows
                 = [j \in 1..Len(analysis.daily) |->
                      <<analysis.daily[j].key, analysis.daily[j].revenue,
                        analysis.daily[j].transaction_count,
                        analysis.daily[j].unique_customers>>]
            /\ report.low_products = analysis.low_products

\* both have run on a list whose regions and dates are reordered by the
\* sorts and which has a low performer
C17_Witness ==
    /\ Rendered
    /\ Len(report.region_rows) >= 2
    /\ report.region_rows[1][1] # valid[1]["Region"]
    /\ Len(report.daily_rows) >= 2
    /\ report.daily_rows[1][1] # valid[1]["Date"]
    /\ report.low_products # <<>>
    /\ Len(report.top_customers) >= 2

\* C18: for a validated list the best selling day of the report (_peak_day:
\* date, revenue, transaction count) is the triple find_peak_sales_day
\* returns, including the date chosen on a revenue tie and the count
C18_PeakDayAgrees ==
    Rendered => report.peak = analysis.peak

\* what remains of C18 without the count and without revenue ties or NaN:
\* the two agree on the date and the revenue
C18_DateAndRevenueWithoutTies ==
    (/\ Rendered
     /\ \A j \in 1..Len(analysis.daily) : analysis.daily[j].revenue.t # "nan"
     /\ \A j, k \in 1..Len(analysis.daily) :
            j # k => analysis.daily[j].revenue # analysis.daily[k].revenue)
    => /\ report.peak[1] = analysis.peak[1]
       /\ report.peak[2] = analysis.peak[2]

FirstSeenRegions(ts) == Distinct([i \in 1..Len(ts) |-> ts[i]["Region"]])

InRegion(ts, region) == SelectSeq(ts, LAMBDA t : t["Region"] = region)

RECURSIVE SumOfCounts(_)
SumOfCounts(stats) ==
    IF stats = <<>> THEN 0
    ELSE SumOfCounts(Tail(stats)) + Head(stats).transaction_count

RECURSIVE SumOfTotals(_)
SumOfTotals(stats) ==
    IF stats = <<>> THEN PyFloat(0, 0)
    ELSE NumAdd(SumOfTotals(SubSeq(stats, 1, Len(stats) - 1)),
                stats[Len(stats)].total_sales)

\* one group per exact region string, each with the sum and the number of
\* its records; the counts and the totals add up to the whole list
GroupedByExactRegion(stats) ==
    /\ Len(stats) = Len(FirstSeenRegions(valid))
    /\ {stats[j].key : j \in 1..Len(stats)}
         = {valid[i]["Region"] : i \in 1..Len(valid)}
    /\ \A j \in 1..Len(stats) :
          /\ stats[j].total_sales = SumOfAmounts(InRegion(valid, stats[j].key))
          /\ stats[j].transaction_count = Len(InRegion(valid, stats[j].key))
    /\ SumOfCounts(stats) = Len(valid)
    /\ SumOfTotals(stats) = analysis.total_revenue

\* total_sales descending, equal totals in first-seen order
DescendingStable(stats) ==
    \A j, k \in 1..Len(stats) :
        j < k =>
            /\ NumGe(stats[j].total_sales, stats[k].total_sales)
            /\ stats[j].total_sales = stats[k].total_sales
                 => KeyIndex([i \in 1..Len(FirstSeenRegions(valid)) |->
                                [key |-> FirstSeenRegions(valid)[i]]],
                             stats[j].key)
                    < KeyIndex([i \in 1..Len(FirstSeenRegions(valid)) |->
                                  [key |-> FirstSeenRegions(valid)[i]]],
                               stats[k].key)

\* C19: region_wise_sales groups by the exact region string, gives each
\* group the sum of its amounts and the number of its records (the counts
\* sum to the number of records, the totals to calculate_total_revenue) and
\* returns the groups by total_sales descending, equal totals first-seen first
C19_RegionWiseSales ==
    analysis.computed =>
        /\ GroupedByExactRegion(analysis.region_stats)
        /\ DescendingStable(analysis.region_stats)

\* what remains of C19: the grouping always, the order when no amount is NaN
C19_ExceptNaN ==
    analysis.computed =>
        /\ GroupedByExactRegion(analysis.region_stats)
        /\ NoNaN(valid) => DescendingStable(analysis.region_stats)

\* regions differing only by case are grouped apart, two groups tie, and
\* the sort moved a later group to the front
C19_Witness ==
    /\ analysis.computed
    /\ NoNaN(valid)
    /\ Len(analysis.region_stats) = 3
    /\ analysis.region_stats[1].key # valid[1]["Region"]
    /\ \E j, k \in 1..3 :
          /\ analysis.region_stats[j].key = PyStr(<<"N">>)
          /\ analysis.region_stats[k].key = PyStr(<<"n">>)
    /\ \E j \in 1..2 : analysis.region_stats[j].total_sales
                          = analysis.region_stats[j + 1].total_sales

\* C20: no stage mutates its input: validate_and_filter leaves the parsed
\* list as it was, the aggregators, enrich_sales_data and
\* generate_sales_report leave the valid list as it was (same length, order
\* and field values, no API_* field), the report leaves the enriched list as
\* it was, and so every stage run again at the end of the pipeline gives
\* the result it gave at its turn
C20_NoStageMutatesInput ==
    /\ [][/\ pc = "validate" => parsed' = parsed
          /\ pc \in {"analyze", "enrich", "report"} => valid' = valid
          /\ pc = "report" => enriched' = enriched]_vars
    /\ [](\A i \in 1..Len(valid) :
            DOMAIN valid[i] = {required_fields[k] : k \in 1..Len(required_fields)})
    /\ [](pc = "done" =>
            /\ validate_and_filter(parsed, region_filter, min_amount, max_amount).valid
                 = valid
            /\ analysis = Aggregates(valid)
            /\ enriched = enrich_sales_data(valid, product_mapping)
            /\ report = generate_sales_report(valid, enriched))

\* the pipeline has finished on a file with a rejected line and a record
\* that was enriched from the catalogue
C20_Witness ==
    /\ pc = "done"
    /\ report.written
    /\ invalid_count > 0
    /\ \E i \in 1..Len(enriched) : enriched[i]["API_Match"] = PyBool(TRUE)
    /\ \E i \in 1..Len(valid) : "API_Match" \notin DOMAIN valid[i]
====
